---- MODULE Spec2Model ----
(***************************************************************************)
(* A model of tasq: the markdown task parser, the repo-id allocator, the   *)
(* status mutator, the multi-project scan, the cross-project lookup, the   *)
(* wip and done commands, two status mutations that race, the scan-path    *)
(* list of the configuration, initTasks and addTask, and the parser of the *)
(* context directives.                                                     *)
(*                                                                         *)
(* A string is a sequence of one-character strings, so that slicing,       *)
(* trimming, case folding, splitting and pattern matching are computed     *)
(* character by character as the code computes them.                       *)
(***************************************************************************)
EXTENDS Integers, Sequences, FiniteSets, TLC

VARIABLES
    \* generateRepoIds, statement by statement
    projectNames, idx, id, len, used, ids, apc,
    \* the working directory: TASKS.md and README.md, and the last operation
    \* on them (the TASKS.md it found, its arguments, how it ended)
    tasksFile, readmeFile, opBefore, opLine, opStatus, opResult,
    \* the scanned directories, and a call of findTaskAcrossProjects: where
    \* it is, what scanAllTasks returned, what scanAllTasksWithIds returned,
    \* the identifier looked up and what was found
    fsys, spc, scanned, results, identifier, found,
    \* a call of cmdStatus in the working directory: the command, the
    \* identifier given, the line index it selected and how it exited
    cmdCommand, cmdIdentifier, cmdTaskIndex, cmdExit,
    \* a document handed to parseTasks: its content, where the caller is,
    \* what parseTasks returned and what it returned for the lines written
    \* back
    pContent, ppc, pResult, pAgain,
    \* two invocations of updateTaskStatus on one TASKS.md: the file, the
    \* file before either ran, where each invocation is, its arguments,
    \* the content it read, the result it holds after replacing its line,
    \* and the invocations that wrote, in the order of their writes
    raceFile, raceInitial, rpc, rargs, rread, rparsed, rwrote,
    \* the persisted scan_paths list, and the last call on it: the list
    \* it found, the function called, its argument and what it returned
    scanPaths, confBefore, confCall, confPath, confReturned,
    \* the calls of initTasks, addTask and updateTaskStatus made one after the
    \* other in the working directory: the last function called, the
    \* TASKS.md it found, its argument, whether it threw, and how many calls
    \* were made
    pjCall, pjBefore, pjArg, pjThrew, pjCalls,
    \* a document handed to parseContextSection: its content, where the
    \* caller is and what parseContextSection returned
    cContent, cpc, cResult

allocVars == <<projectNames, idx, id, len, used, ids, apc>>

fileVars == <<tasksFile, readmeFile, opBefore, opLine, opStatus, opResult>>

scanVars == <<fsys, spc, scanned, results, identifier, found>>

cmdVars == <<cmdCommand, cmdIdentifier, cmdTaskIndex, cmdExit>>

\* The variables of the operations modelled further down.
parseVars == <<pContent, ppc, pResult, pAgain>>

raceVars == <<raceFile, raceInitial, rpc, rargs, rread, rparsed, rwrote>>

confVars == <<scanPaths, confBefore, confCall, confPath, confReturned>>

projVars == <<pjCall, pjBefore, pjArg, pjThrew, pjCalls>>

ctxVars == <<cContent, cpc, cResult>>

moreVars == <<confVars, projVars, ctxVars>>

restVars == <<cmdVars, parseVars, raceVars, moreVars>>

vars == <<allocVars, fileVars, scanVars, restVars>>

----------------------------------------------------------------------------
(* Strings *)

UpperChars == <<"A","B","C","D","E","F","G","H","I","J","K","L","M",
                "N","O","P","Q","R","S","T","U","V","W","X","Y","Z">>

LowerChars == <<"a","b","c","d","e","f","g","h","i","j","k","l","m",
                "n","o","p","q","r","s","t","u","v","w","x","y","z">>

DigitChars == <<"0","1","2","3","4","5","6","7","8","9">>

Range(s) == { s[i] : i \in 1..Len(s) }

Min(a, b) == IF a < b THEN a ELSE b

toLowerCaseChar(c) ==
    IF \E i \in 1..26 : UpperChars[i] = c
    THEN LowerChars[CHOOSE i \in 1..26 : UpperChars[i] = c]
    ELSE c

\* String.prototype.toLowerCase
toLowerCase(s) == [i \in 1..Len(s) |-> toLowerCaseChar(s[i])]

\* s.slice(0, n)
slice(s, n) == SubSeq(s, 1, Min(n, Len(s)))

\* s.charAt(0): the empty string when s is empty
charAt0(s) == IF Len(s) = 0 THEN <<>> ELSE <<s[1]>>

\* s.startsWith(p)
startsWith(s, p) == Len(p) <= Len(s) /\ SubSeq(s, 1, Len(p)) = p

\* The backquote character, which a TLA+ string cannot hold.
Backtick == "<backquote>"

\* The whitespace String.prototype.trim and the pattern \s recognise,
\* among the characters the model writes.
IsSpace(c) == c \in {" ", "\t", "\r", "\n"}

\* The first index >= from of s that holds no whitespace; Len(s) + 1 if none.
SkipSpaces(s, from) ==
    LET stops == { i \in from..(Len(s) + 1) : i = Len(s) + 1 \/ ~IsSpace(s[i]) }
    IN  CHOOSE i \in stops : \A j \in stops : i <= j

\* The last index of s that holds no whitespace; 0 if none.
LastNonSpace(s) ==
    LET stops == { i \in 0..Len(s) : i = 0 \/ ~IsSpace(s[i]) }
    IN  CHOOSE i \in stops : \A j \in stops : i >= j

\* String.prototype.trim
trim(s) == SubSeq(s, SkipSpaces(s, 1), LastNonSpace(s))

RECURSIVE split(_)
\* content.split('\n')
split(s) ==
    IF \A i \in 1..Len(s) : s[i] # "\n"
    THEN <<s>>
    ELSE LET i == CHOOSE k \in 1..Len(s) :
                      s[k] = "\n" /\ \A j \in 1..(k - 1) : s[j] # "\n"
         IN  <<SubSeq(s, 1, i - 1)>> \o split(SubSeq(s, i + 1, Len(s)))

RECURSIVE join(_)
\* lines.join('\n')
join(ls) ==
    IF Len(ls) = 0 THEN <<>>
    ELSE IF Len(ls) = 1 THEN ls[1]
    ELSE ls[1] \o <<"\n">> \o join(Tail(ls))

\* s.includes(p)
includes(s, p) ==
    \E i \in 1..(Len(s) - Len(p) + 1) : SubSeq(s, i, i + Len(p) - 1) = p

----------------------------------------------------------------------------
(* types: the statuses and their markers *)

Pending == "pending"
InProgress == "in-progress"
Completed == "completed"

TaskStatus == {Pending, InProgress, Completed}

\* STATUS_MAP[c] || 'pending', c being the text the pattern captured
StatusOfMarker(c) ==
    IF c \in {<<"x">>, <<"X">>} THEN Completed
    ELSE IF c = <<"~">> THEN InProgress
    ELSE Pending

\* STATUS_MARKERS[status]
STATUS_MARKERS(status) ==
    IF status = Completed THEN <<"[","x","]">>
    ELSE IF status = InProgress THEN <<"[","~","]">>
    ELSE <<"["," ","]">>

----------------------------------------------------------------------------
(* parseTasks *)

\* The value of a variable that is null, and of a field that is undefined.
Null == <<"<null>">>
Undefined == <<"<undefined>">>

HeaderSection == <<"h","e","a","d","e","r">>
GoalsSection == <<"g","o","a","l","s">>
TasksSection == <<"t","a","s","k","s">>
ReadmeSection == <<"r","e","a","d","m","e">>

\* The pattern /^\-\s*\[([x~ ]?)\]/ at the start of s, p being the index
\* that follows the dash and the whitespace after it.
MatchCheckboxAt(s, p) ==
    IF p > Len(s) \/ s[p] # "["
    THEN [matched |-> FALSE, marker |-> <<>>, end |-> 0]
    ELSE IF p + 2 <= Len(s) /\ s[p + 1] \in {"x", "~", " "} /\ s[p + 2] = "]"
    THEN [matched |-> TRUE, marker |-> <<s[p + 1]>>, end |-> p + 2]
    ELSE IF p + 1 <= Len(s) /\ s[p + 1] = "]"
    THEN [matched |-> TRUE, marker |-> <<>>, end |-> p + 1]
    ELSE [matched |-> FALSE, marker |-> <<>>, end |-> 0]

\* The pattern /^\-\s*\[([x~ ]?)\]/ at the start of s: whether it matches,
\* the text its group captures and the index of the closing bracket.
MatchCheckbox(s) ==
    IF Len(s) = 0 \/ s[1] # "-"
    THEN [matched |-> FALSE, marker |-> <<>>, end |-> 0]
    ELSE MatchCheckboxAt(s, SkipSpaces(s, 2))

\* match[2].trim() of /^\-\s*\[([x~ ]?)\]\s*(.*)/
CheckboxDescription(s, m) == trim(SubSeq(s, m.end + 1, Len(s)))

\* trimmed.replace(/^#\s+/, '') and trimmed.replace(/^##\s+/, ''), n being
\* the number of # signs
StripHeading(t, n) == SubSeq(t, SkipSpaces(t, n + 1), Len(t))

\* x += (x ? '\n' : '') + line
AppendLine(x, line) == IF Len(x) > 0 THEN x \o <<"\n">> \o line ELSE line

ParseStart(lines) ==
    [ name |-> <<>>, description |-> <<>>, notes |-> <<>>,
      goals |-> <<>>, tasks |-> <<>>, lines |-> lines,
      currentSection |-> Null, inTasks |-> FALSE,
      foundFirstTaskInSection |-> FALSE, inCodeBlock |-> FALSE ]

\* const task = { line: i, status, description }, with task.section
NewTask(i, trimmed, m, currentSection) ==
    [ line |-> i,
      status |-> StatusOfMarker(m.marker),
      description |-> CheckboxDescription(trimmed, m),
      section |-> IF currentSection = HeaderSection \/ currentSection = Null
                  THEN Undefined ELSE currentSection ]

\* A checkbox branch that keeps only the tasks of the ## Tasks section.
ParseCheckboxTasksOnly(st, task, m) ==
    IF m.matched /\ st.inTasks
    THEN [st EXCEPT !.foundFirstTaskInSection = TRUE,
                    !.tasks = Append(st.tasks, task)]
    ELSE st

\* A checkbox branch that pushes every task onto goals.
ParseCheckboxAllGoals(st, task, m) ==
    IF m.matched
    THEN [st EXCEPT !.foundFirstTaskInSection = TRUE,
                    !.goals = Append(st.goals, task),
                    !.tasks = Append(st.tasks, task)]
    ELSE st

\* The branch of parseTasks for a line that starts with '- ', m being the
\* match of the checkbox pattern.
ParseCheckbox(st, task, m) ==
    IF m.matched
    THEN [st EXCEPT !.foundFirstTaskInSection = TRUE,
                    !.goals = IF st.currentSection = GoalsSection
                              THEN Append(st.goals, task) ELSE st.goals,
                    !.tasks = Append(st.tasks, task)]
    ELSE st

\* A heading branch that leaves foundFirstTaskInSection as it is.
ParseSectionKeepFlag(st, section) ==
    [st EXCEPT !.currentSection = section,
               !.inTasks = (section = TasksSection)]

\* The branch of parseTasks for a level-2 heading.
ParseSection(st, section) ==
    [st EXCEPT !.currentSection = section,
               !.inTasks = (section = TasksSection),
               !.foundFirstTaskInSection = FALSE]

\* A fence line that leaves inCodeBlock as it is.
ToggleCodeBlockNever(st) == st

\* inCodeBlock = !inCodeBlock
ToggleCodeBlock(st) == [st EXCEPT !.inCodeBlock = ~st.inCodeBlock]

\* One iteration of the loop of parseTasks, on line i (0-based), line
\* being lines[i] and trimmed being line.trim().
ParseTrimmed(st, i, line, trimmed) ==
    IF startsWith(trimmed, <<Backtick, Backtick, Backtick>>)
    THEN ToggleCodeBlock(st)
    ELSE IF st.inCodeBlock THEN st
    ELSE IF startsWith(trimmed, <<"#"," ">>)
    THEN [st EXCEPT !.name = StripHeading(trimmed, 1),
                    !.currentSection = HeaderSection]
    ELSE IF startsWith(trimmed, <<"#","#"," ">>)
    THEN ParseSection(st, toLowerCase(StripHeading(trimmed, 2)))
    ELSE IF startsWith(trimmed, <<"-"," ">>)
    THEN ParseCheckbox(st,
                       NewTask(i, trimmed, MatchCheckbox(trimmed),
                               st.currentSection),
                       MatchCheckbox(trimmed))
    ELSE IF st.currentSection = HeaderSection /\ Len(line) > 0
                /\ ~startsWith(line, <<"#">>)
                /\ ~startsWith(trimmed, <<"-">>)
    THEN [st EXCEPT !.description = AppendLine(st.description, line)]
    ELSE IF st.inTasks /\ ~st.foundFirstTaskInSection /\ Len(line) > 0
                /\ ~startsWith(line, <<"#">>)
                /\ ~startsWith(trimmed, <<"-">>)
    THEN [st EXCEPT !.notes = AppendLine(st.notes, line)]
    ELSE st

ParseLine(st, i) == ParseTrimmed(st, i, st.lines[i + 1], trim(st.lines[i + 1]))

RECURSIVE ParseLoop(_, _)
\* for (let i = 0; i < lines.length; i++)
ParseLoop(st, i) ==
    IF i >= Len(st.lines) THEN st ELSE ParseLoop(ParseLine(st, i), i + 1)

\* The ParsedTasks record of the state the loop ends in.
ParseResult(st) ==
    [ name |-> st.name, description |-> st.description,
      notes |-> st.notes, goals |-> st.goals, tasks |-> st.tasks,
      lines |-> st.lines ]

\* parseTasks(content)
parseTasks(content) == ParseResult(ParseLoop(ParseStart(split(content)), 0))

----------------------------------------------------------------------------
(* core: readTasks, writeTasks, updateTaskStatus *)

\* The content of a file that does not exist.
Absent == <<"<absent>">>

\* basename(getRepoBase()): the name of the working directory
RepoBaseName == <<"r","e","p","o">>

IsLineTerminator(c) == c \in {"\n", "\r"}

\* The indices at which group 1 of /^#\s+(.+)$/m may start for a match that
\* starts at i: after one or more whitespace characters, on a character
\* that is no line terminator.
TitleStarts(c, i) ==
    IF c[i] # "#" \/ (i > 1 /\ ~IsLineTerminator(c[i - 1])) THEN {}
    ELSE { k \in (i + 2)..Min(SkipSpaces(c, i + 1), Len(c)) :
              ~IsLineTerminator(c[k]) }

\* The index at which a line that holds index k ends.
LineEnd(c, k) ==
    CHOOSE e \in k..Len(c) :
        /\ \A j \in k..e : ~IsLineTerminator(c[j])
        /\ e = Len(c) \/ IsLineTerminator(c[e + 1])

\* The least and the greatest element of a set of integers.
Least(S) == CHOOSE a \in S : \A b \in S : a <= b
Greatest(S) == CHOOSE a \in S : \A b \in S : a >= b

\* Group 1 of the match of /^#\s+(.+)$/m that starts at i, the greedy \s+
\* taken as long as it can be.
TitleGroup(c, k) == SubSeq(c, k, LineEnd(c, k))

\* readmeContent.match(/^#\s+(.+)$/m): group 1 of the first match; Null
\* without a match
TitleMatch(c) ==
    IF \A i \in 1..Len(c) : TitleStarts(c, i) = {} THEN Null
    ELSE TitleGroup(c, Greatest(TitleStarts(c,
             Least({ i \in 1..Len(c) : TitleStarts(c, i) # {} }))))

\* { ...t, section: 'readme', readmeContext }
ReadmeTask(t, parsed) ==
    [ line |-> t.line, status |-> t.status, description |-> t.description,
      section |-> ReadmeSection,
      readmeContext |-> [ description |-> parsed.description,
                          tasksDescription |-> parsed.notes ] ]

MapReadme(kept, parsed) ==
    [ i \in 1..Len(kept) |-> ReadmeTask(kept[i], parsed) ]

\* readmeParsed.tasks.filter((t) => t.section === 'tasks')
\*     .map((t) => ({ ...t, section: 'readme', readmeContext }))
ReadmeTasks(parsed) ==
    MapReadme(SelectSeq(parsed.tasks, LAMBDA t : t.section = TasksSection),
              parsed)

\* A ParsedTasks | null that is null.
NullResult == [null |-> TRUE]

IsNull(r) == "null" \in DOMAIN r

\* nameMatch ? nameMatch[1] : basename(getRepoBase())
NameOrBase(nameMatch) == IF nameMatch # Null THEN nameMatch ELSE RepoBaseName

\* The second half of readTasks: README.md exists, result is what TASKS.md
\* gave and readmeTasks are the tasks of the ## Tasks section of README.md.
MergeReadTasks(result, readme, readmeLines, readmeTasks) ==
    IF Len(readmeTasks) = 0 THEN result
    ELSE IF IsNull(result)
    THEN [ name |-> NameOrBase(TitleMatch(readme)),
           description |-> <<>>, notes |-> <<>>,
           goals |-> <<>>, tasks |-> readmeTasks,
           lines |-> readmeLines ]
    ELSE [result EXCEPT !.tasks = result.tasks \o readmeTasks]

\* if (existsSync(tasksPath)) result = parseTasks(content)
ReadTasksFile(tasks) ==
    IF tasks # Absent THEN parseTasks(tasks) ELSE NullResult

\* readTasks(): TASKS.md parsed, with the tasks of the ## Tasks section of
\* README.md appended; README.md alone when there is no TASKS.md; or null
readTasks(tasks, readme) ==
    IF readme = Absent THEN ReadTasksFile(tasks)
    ELSE MergeReadTasks(ReadTasksFile(tasks), readme, split(readme),
                        ReadmeTasks(parseTasks(readme)))

\* A write that leaves out the empty lines.
WriteTasksNoBlank(parsed) ==
    join(SelectSeq(parsed.lines, LAMBDA l : Len(l) > 0))

\* writeTasks(parsed): the content written to TASKS.md
writeTasks(parsed) == join(parsed.lines)

\* The line with the matched text replaced by "- " and the marker.
ReplaceMatched(line, m, status) ==
    IF m.matched
    THEN <<"-", " ">> \o STATUS_MARKERS(status)
             \o SubSeq(line, m.end + 1, Len(line))
    ELSE line

\* A replacement that drops the text after the closing bracket.
ReplaceMarkerWholeLine(line, status) ==
    IF MatchCheckbox(line).matched
    THEN <<"-", " ">> \o STATUS_MARKERS(status)
    ELSE line

\* line.replace(/^\-\s*\[([x~ ]?)\]/, `- ${STATUS_MARKERS[status]}`)
ReplaceMarker(line, status) ==
    ReplaceMatched(line, MatchCheckbox(line), status)

\* How many lines a TASKS.md or README.md of the model has at most.
MaxLines == 2

\* The lines the model writes files from: checkbox lines with each marker,
\* indented, with no or two spaces after the dash, with a capital X, with
\* trailing whitespace, and lines that are no checkbox.
LineSet ==
    { <<"-"," ","[","x","]"," ","a">>,
      <<"-"," ","[","~","]"," ","b"," ">>,
      <<"-"," ","[","]","c">>,
      <<" ","-"," ","[","x","]"," ","a">>,
      <<"-"," "," ","[","~","]","c">>,
      <<"-"," ","[","X","]"," ","a">>,
      <<"-","[","x","]"," ","c">>,
      <<"-"," ","[","]">>,
      <<"-"," ","c">>,
      <<"#"," ","T">>,
      <<"#","#"," ","T","a","s","k","s">>,
      <<"n">>,
      <<>> }

FileContents ==
    { join(ls) : ls \in UNION { [1..n -> LineSet] : n \in 1..MaxLines } }

\* A README.md whose ## Tasks section holds a task.
ReadmeWithTasks ==
    join(<< <<"#"," ","R">>,
            <<"#","#"," ","T","a","s","k","s">>,
            <<"-"," ","[","x","]"," ","r">> >>)

FileInit ==
    /\ tasksFile \in FileContents \cup {Absent}
    /\ readmeFile \in {Absent, ReadmeWithTasks}
    /\ opBefore = Absent
    /\ opLine = 0
    /\ opStatus = Pending
    /\ opResult = "none"

\* updateTaskStatus(lineIndex, status) from its second line on, parsed being
\* what readTasks returned and tasks the TASKS.md there is: how it ends and
\* the TASKS.md it leaves. With nothing to read it returns null; past the
\* end of parsed.lines, line is undefined and line.replace throws before
\* anything is written; otherwise the marker of the line is replaced and
\* every line is written back to TASKS.md.
UpdateParsed(parsed, tasks, lineIndex, status) ==
    IF IsNull(parsed)
    THEN [result |-> "null", file |-> tasks]
    ELSE IF lineIndex >= Len(parsed.lines)
    THEN [result |-> "threw", file |-> tasks]
    ELSE [ result |-> "written",
           file |-> writeTasks([parsed EXCEPT !.lines[lineIndex + 1] =
                        ReplaceMarker(parsed.lines[lineIndex + 1], status)]) ]

\* updateTaskStatus(lineIndex, status) on the files given
updateTaskStatus(tasks, readme, lineIndex, status) ==
    UpdateParsed(readTasks(tasks, readme), tasks, lineIndex, status)

\* One invocation of the tool performs one status mutation and exits: it
\* acts on the files as it finds them.
UpdateTaskStatus(lineIndex, status) ==
    /\ opResult = "none"
    /\ tasksFile' =
           updateTaskStatus(tasksFile, readmeFile, lineIndex, status).file
    /\ opResult' =
           updateTaskStatus(tasksFile, readmeFile, lineIndex, status).result
    /\ opBefore' = tasksFile
    /\ opLine' = lineIndex
    /\ opStatus' = status
    /\ UNCHANGED readmeFile

\* The working directory while no file operation runs.
FileIdle ==
    /\ tasksFile = Absent
    /\ readmeFile = Absent
    /\ opBefore = Absent
    /\ opLine = 0
    /\ opStatus = Pending
    /\ opResult = "none"

----------------------------------------------------------------------------
(* generateRepoIds *)

\* The largest value the model lets len take; the code's len++ has no bound.
MaxLen == 8

\* How many project names one call is given.
MaxNames == 3

alpha == <<"a","l","p","h","a">>
apple == <<"a","p","p","l","e">>
apricot == <<"a","p","r","i","c","o","t">>

\* The project names the model draws from: the documented example, names
\* that are prefixes of one another, names that differ in case only, names
\* with a hyphen or a digit, and the empty name.
NameSet ==
    { alpha, apple, apricot,
      <<"a">>, <<"a","b">>, <<"A">>,
      <<"F","o","o">>, <<"f","o","o">>,
      <<"p","-","a">>, <<"p","-","b">>,
      <<"a","1">>, <<>> }

NameLists == UNION { [1..n -> NameSet] : n \in 0..MaxNames }

\* let id = name.charAt(0).toLowerCase()
FirstCandidate(name) == toLowerCase(charAt0(name))

\* A candidate taken from the name without lower-casing it.
CandidateNoFold(name, n) == slice(name, n)

\* id = name.toLowerCase().slice(0, len)
Candidate(name, n) == slice(toLowerCase(name), n)

\* A length that grows by two.
NextLenSkip(n) == IF n + 1 < MaxLen THEN n + 2 ELSE MaxLen

\* len++ (the model stops counting at MaxLen)
NextLen(n) == IF n < MaxLen THEN n + 1 ELSE n

\* ids.set(name, id) on a Map: a later set for the same key overwrites
MapSet(m, k, v) == [x \in DOMAIN m \cup {k} |-> IF x = k THEN v ELSE m[x]]

EmptyMap == [x \in {} |-> <<>>]

CurrentName == projectNames[idx]

AllocInit ==
    /\ projectNames \in NameLists
    /\ idx = 0
    /\ id = <<>>
    /\ len = 0
    /\ used = {}
    /\ ids = EmptyMap
    /\ apc = "for"

\* for (const name of projectNames) { let id = ...; let len = 1;
AllocForNext ==
    /\ apc = "for"
    /\ idx < Len(projectNames)
    /\ idx' = idx + 1
    /\ id' = FirstCandidate(projectNames[idx + 1])
    /\ len' = 1
    /\ apc' = "while"
    /\ UNCHANGED <<projectNames, used, ids>>

\* while (used.has(id)) { len++; id = name.toLowerCase().slice(0, len); }
AllocWhileBody ==
    /\ apc = "while"
    /\ id \in used
    /\ len' = NextLen(len)
    /\ id' = Candidate(CurrentName, NextLen(len))
    /\ UNCHANGED <<projectNames, idx, used, ids, apc>>

\* ids.set(name, id); used.add(id);
AllocAssign ==
    /\ apc = "while"
    /\ id \notin used
    /\ ids' = MapSet(ids, CurrentName, id)
    /\ used' = used \cup {id}
    /\ apc' = "for"
    /\ UNCHANGED <<projectNames, idx, id, len>>

\* return ids;
AllocReturn ==
    /\ apc = "for"
    /\ idx = Len(projectNames)
    /\ apc' = "done"
    /\ UNCHANGED <<projectNames, idx, id, len, used, ids>>

\* generateRepoIds has given every name before position i its id: the
\* while loop for the name at i, at candidate c of length n. Once n reaches
\* the length of the name the candidate no longer changes, and a candidate
\* that is already issued is then tried forever.
RECURSIVE AllocNames(_, _, _, _, _, _)
AllocNames(names, i, c, n, usedIds, map) ==
    IF i > Len(names) THEN [hangs |-> FALSE, ids |-> map]
    ELSE IF c \notin usedIds
    THEN IF i = Len(names)
         THEN [hangs |-> FALSE, ids |-> MapSet(map, names[i], c)]
         ELSE AllocNames(names, i + 1, FirstCandidate(names[i + 1]), 1,
                         usedIds \cup {c}, MapSet(map, names[i], c))
    ELSE IF n >= Len(names[i]) THEN [hangs |-> TRUE, ids |-> map]
    ELSE AllocNames(names, i, Candidate(names[i], n + 1), n + 1,
                    usedIds, map)

\* generateRepoIds(projectNames) as one call: the map it returns, or that
\* it never returns
generateRepoIds(names) ==
    IF Len(names) = 0 THEN [hangs |-> FALSE, ids |-> EmptyMap]
    ELSE AllocNames(names, 1, FirstCandidate(names[1]), 1, {}, EmptyMap)

----------------------------------------------------------------------------
(* core: scanAllTasks, scanAllTasksWithIds, findTaskAcrossProjects *)

\* How many directories under the scan paths hold a TASKS.md or a README.md.
MaxProjects == 2

\* The directories under the scan paths: two parents, so that directories
\* of the same name occur, and names that are a prefix of one another once
\* lower-cased, that hold a digit or that start with one.
Dirs ==
    { [parent |-> "p", base |-> <<"a">>],
      [parent |-> "p", base |-> <<"A","b">>],
      [parent |-> "p", base |-> <<"a","1">>],
      [parent |-> "p", base |-> <<"3","d">>],
      [parent |-> "q", base |-> <<"A","b">>] }

TasksA ==
    join(<< <<"#","#"," ","G","o","a","l","s">>,
            <<"-"," ","[","]"," ","a","1">>,
            <<"#","#"," ","T","a","s","k","s">>,
            <<"-"," ","[","x","]"," ","B">> >>)

TasksB == join(<< <<"-"," ","[","~","]"," ","b","2">> >>)

FsysOptions ==
    { [tasks |-> t, readme |-> r] :
        t \in {Absent, TasksA, TasksB}, r \in {Absent, ReadmeWithTasks} }

\* The identifiers looked up: compact ids in and out of range, with a
\* leading zero, with a digit in the repo id, a bare number, and plain
\* substrings.
Identifiers ==
    { <<"1">>, <<"a","1">>, <<"a","2">>, <<"a","0">>, <<"a","0","2">>, <<"a","9">>,
      <<"a","b","1">>, <<"a","1","1">>, <<"A","1">>,
      <<"b">>, <<"z">>, <<>> }

\* The sequences that list each element of S once: the orders in which
\* fast-glob may return the files.
Orders(S) ==
    { o \in [1..Cardinality(S) -> S] :
        \A i, j \in 1..Cardinality(S) : i # j => o[i] # o[j] }

\* The content of a file that is there and cannot be read.
Unreadable == <<"<unreadable>">>

\* A read that never fails.
ReadFailsNever(content) == FALSE

\* Whether await readFile(file, 'utf-8') throws on a file of this content,
\* so that the catch skips the file.
ReadFails(content) == content = Unreadable

\* The result of scanAllTasks for the TASKS.md of directory d, the files
\* being those of fs.
TasksResult(fs, d) ==
    LET parsed == parseTasks(fs[d].tasks)
    IN  [ path |-> [dir |-> d, file |-> "TASKS.md"],
          projectName |-> d.base, relPath |-> d,
          parsed |-> parsed, tasks |-> parsed.tasks ]

\* The loop over tasksFiles: a result for every TASKS.md that can be read.
TasksResults(fs, tasksFiles) ==
    LET readable == SelectSeq(tasksFiles, LAMBDA d : ~ReadFails(fs[d].tasks))
    IN  [i \in 1..Len(readable) |-> TasksResult(fs, readable[i])]

\* The position in rs of the result of directory d; 0 if there is none.
\* projectMap is keyed by directory.
Existing(rs, d) ==
    IF \E i \in 1..Len(rs) : rs[i].path.dir = d
    THEN CHOOSE i \in 1..Len(rs) : rs[i].path.dir = d
    ELSE 0

\* One iteration of the loop over readmeFiles on a README.md that was
\* read: its tasks are pushed onto the tasks of the directory's TASKS.md
\* result (the array that parsed.tasks is too), or make a result of their
\* own.
MergeParsed(rs, d, parsed, readmeTasks, e) ==
    IF Len(readmeTasks) = 0 THEN rs
    ELSE IF e # 0
    THEN [rs EXCEPT ![e].tasks = rs[e].tasks \o readmeTasks,
                    ![e].parsed.tasks = rs[e].tasks \o readmeTasks]
    ELSE Append(rs, [ path |-> [dir |-> d, file |-> "README.md"],
                      projectName |-> d.base, relPath |-> d,
                      parsed |-> parsed, tasks |-> readmeTasks ])

\* One iteration of the loop over readmeFiles: a README.md that cannot be
\* read is skipped.
MergeReadme(fs, rs, d) ==
    IF ReadFails(fs[d].readme) THEN rs
    ELSE MergeParsed(rs, d, parseTasks(fs[d].readme),
                     ReadmeTasks(parseTasks(fs[d].readme)), Existing(rs, d))

RECURSIVE MergeReadmes(_, _, _, _)
MergeReadmes(fs, rs, readmeFiles, i) ==
    IF i > Len(readmeFiles) THEN rs
    ELSE MergeReadmes(fs, MergeReadme(fs, rs, readmeFiles[i]), readmeFiles,
                      i + 1)

\* scanAllTasks, fast-glob having returned tasksFiles and readmeFiles and
\* the files being those of fs
scanAllTasks(fs, tasksFiles, readmeFiles) ==
    MergeReadmes(fs, TasksResults(fs, tasksFiles), readmeFiles, 1)

RECURSIVE ToDecimal(_)
\* `${n}` for an integer n >= 0
ToDecimal(n) ==
    IF n < 10 THEN <<DigitChars[n + 1]>>
    ELSE ToDecimal(n \div 10) \o <<DigitChars[(n % 10) + 1]>>

\* A task id that counts from 0.
TaskIdFromZero(repoId, i) == repoId \o ToDecimal(i - 1)

\* `${repoId}${i + 1}`, i being the 1-based position here
TaskId(repoId, i) == repoId \o ToDecimal(i)

\* results.map((r) => ({ ...r, repoId, tasks: tasksWithIds }))
WithIds(rs, repoIds) ==
    [ k \in 1..Len(rs) |->
        LET repoId == repoIds[rs[k].projectName]
        IN  [repoId |-> repoId] @@
            [rs[k] EXCEPT !.tasks =
                [ i \in 1..Len(rs[k].tasks) |->
                    [id |-> TaskId(repoId, i)] @@ rs[k].tasks[i] ]] ]

IsLowerLetter(c) == \E i \in 1..26 : LowerChars[i] = c

IsDigit(c) == \E i \in 1..10 : DigitChars[i] = c

\* identifier.match(/^([a-z]+)(\d+)$/): the length of group 1; 0 without a
\* match
CompactMatch(s) ==
    LET ks == { k \in 1..(Len(s) - 1) :
                  /\ \A i \in 1..k : IsLowerLetter(s[i])
                  /\ \A i \in (k + 1)..Len(s) : IsDigit(s[i]) }
    IN  IF ks = {} THEN 0 ELSE CHOOSE k \in ks : TRUE

DigitValue(c) == (CHOOSE i \in 1..10 : DigitChars[i] = c) - 1

RECURSIVE parseInt(_)
\* parseInt(taskNum, 10) of a string of digits
parseInt(s) ==
    IF Len(s) = 0 THEN 0
    ELSE 10 * parseInt(SubSeq(s, 1, Len(s) - 1)) + DigitValue(s[Len(s)])

\* The first of the positions in S; 0 if there is none.
FirstIndex(S) == IF S = {} THEN 0 ELSE Least(S)

\* The loop over results of the compact-id branch: the position of the
\* first result with that repoId and a task at taskIndex; 0 if none.
CompactLookup(rs, ident) ==
    LET k == CompactMatch(ident)
        repoId == SubSeq(ident, 1, k)
        taskIndex == parseInt(SubSeq(ident, k + 1, Len(ident))) - 1
    IN  IF k = 0 THEN [at |-> 0, task |-> 0]
        ELSE [ at |-> FirstIndex({ p \in 1..Len(rs) :
                        /\ rs[p].repoId = repoId
                        /\ taskIndex >= 0
                        /\ taskIndex < Len(rs[p].tasks) }),
               task |-> taskIndex + 1 ]

\* t.description.toLowerCase().includes(identifier.toLowerCase())
DescriptionMatches(t, ident) ==
    includes(toLowerCase(t.description), toLowerCase(ident))

\* result.tasks.find(...): the position of the first task whose description
\* contains the identifier; 0 if there is none
FindTask(tasks, ident) ==
    FirstIndex({ i \in 1..Len(tasks) : DescriptionMatches(tasks[i], ident) })

\* The fallback loop of findTaskAcrossProjects: the first result with a task
\* whose description contains the identifier, with the first such task
SubstringLookup(rs, ident) ==
    LET at == FirstIndex({ p \in 1..Len(rs) : FindTask(rs[p].tasks, ident) # 0 })
    IN  IF at = 0 THEN NullResult
        ELSE [task |-> rs[at].tasks[FindTask(rs[at].tasks, ident)]] @@ rs[at]

\* A lookup that skips the compact-id branch.
LookupBySubstringOnly(rs, ident) == SubstringLookup(rs, ident)

\* The lookup of findTaskAcrossProjects in the scan results: by compact id,
\* else by substring of a description, else null
Lookup(rs, ident) ==
    LET c == CompactLookup(rs, ident)
    IN  IF c.at # 0
        THEN [task |-> rs[c.at].tasks[c.task]] @@ rs[c.at]
        ELSE SubstringLookup(rs, ident)

\* The directories that hold a TASKS.md, and those that hold a README.md.
WithTasks == { d \in Dirs : fsys[d].tasks # Absent }
WithReadme == { d \in Dirs : fsys[d].readme # Absent }

ScanInit ==
    /\ fsys \in [Dirs -> FsysOptions]
    /\ Cardinality(WithTasks \cup WithReadme) <= MaxProjects
    /\ spc = "idle"
    /\ scanned = <<>>
    /\ results = <<>>
    /\ identifier = <<>>
    /\ found = NullResult

\* The working directory as a scan finds it: one directory, named as
\* getRepoBase names it, that holds the TASKS.md and the README.md given.
ProjectDir == [parent |-> "w", base |-> RepoBaseName]

ProjectFiles(tasks, readme) ==
    [d \in {ProjectDir} |-> [tasks |-> tasks, readme |-> readme]]

\* What fast-glob returns for a pattern in the working directory.
Globbed(content) == IF content # Absent THEN <<ProjectDir>> ELSE <<>>

\* scanAllTasks on the working directory
ProjectScan(tasks, readme) ==
    scanAllTasks(ProjectFiles(tasks, readme), Globbed(tasks), Globbed(readme))

\* scanAllTasksWithIds on the working directory
ProjectWithIds(rs) ==
    WithIds(rs, generateRepoIds([k \in 1..Len(rs) |-> rs[k].projectName]).ids)

\* The tasks, with their ids, that scanAllTasksWithIds returns for the
\* working directory.
ProjectTasks(tasks, readme) ==
    IF ProjectScan(tasks, readme) = <<>> THEN <<>>
    ELSE ProjectWithIds(ProjectScan(tasks, readme))[1].tasks

\* The directories that hold files in the scans with unreadable files, and
\* what each may hold: a TASKS.md and a README.md that are absent, readable
\* or unreadable.
SkipDirs == { d \in Dirs : d.base \in { <<"a">>, <<"A","b">> } }

SkipOptions ==
    { [tasks |-> t, readme |-> r] :
        t \in {Absent, TasksB, Unreadable},
        r \in {Absent, ReadmeWithTasks, Unreadable} }

SkipInit ==
    /\ fsys \in [Dirs -> SkipOptions]
    /\ \A d \in Dirs \ SkipDirs : fsys[d] = [tasks |-> Absent, readme |-> Absent]
    /\ Cardinality(WithTasks \cup WithReadme) <= MaxProjects
    /\ spc = "idle"
    /\ scanned = <<>>
    /\ results = <<>>
    /\ identifier = <<>>
    /\ found = NullResult

\* const results = await scanAllTasks(scanPaths), in scanAllTasksWithIds as
\* findTaskAcrossProjects calls it
ScanAllTasks ==
    /\ spc = "idle"
    /\ \E tasksFiles \in Orders(WithTasks), readmeFiles \in Orders(WithReadme) :
          scanned' = scanAllTasks(fsys, tasksFiles, readmeFiles)
    /\ spc' = "scanned"
    /\ UNCHANGED <<fsys, results, identifier, found>>

\* The project names scanAllTasksWithIds hands to generateRepoIds.
ScannedNames == [k \in 1..Len(scanned) |-> scanned[k].projectName]

\* generateRepoIds(projectNames) returns and scanAllTasksWithIds adds the
\* repo id and the task ids to each result
ScanWithIds ==
    /\ spc = "scanned"
    /\ ~generateRepoIds(ScannedNames).hangs
    /\ results' = WithIds(scanned, generateRepoIds(ScannedNames).ids)
    /\ spc' = "ids"
    /\ UNCHANGED <<fsys, scanned, identifier, found>>

\* generateRepoIds(projectNames) does not return
ScanHangs ==
    /\ spc = "scanned"
    /\ generateRepoIds(ScannedNames).hangs
    /\ spc' = "hung"
    /\ UNCHANGED <<fsys, scanned, results, identifier, found>>

\* The task ids scanAllTasksWithIds has issued.
IssuedTaskIds ==
    UNION { { results[k].tasks[j].id : j \in 1..Len(results[k].tasks) } :
              k \in 1..Len(results) }

\* findTaskAcrossProjects(ident) after its await of scanAllTasksWithIds
FindTaskAcrossProjects(ident) ==
    /\ spc = "ids"
    /\ identifier' = ident
    /\ found' = Lookup(results, ident)
    /\ spc' = "returned"
    /\ UNCHANGED <<fsys, scanned, results>>

\* No scan is under way.
ScanIdle ==
    /\ fsys = [d \in Dirs |-> [tasks |-> Absent, readme |-> Absent]]
    /\ spc = "none"
    /\ scanned = <<>>
    /\ results = <<>>
    /\ identifier = <<>>
    /\ found = NullResult

\* No call of generateRepoIds is under way.
AllocIdle ==
    /\ projectNames = <<>>
    /\ idx = 0
    /\ id = <<>>
    /\ len = 0
    /\ used = {}
    /\ ids = EmptyMap
    /\ apc = "idle"

----------------------------------------------------------------------------
(* commands: cmdStatus (tasq wip <id>, tasq done <id>) *)

\* Number.parseInt(identifier, 10): leading whitespace is skipped, a sign is
\* read, then the digits up to the first character that is no digit; NaN
\* when there is no digit there.
SignAt(s, p) == p <= Len(s) /\ s[p] \in {"-", "+"}

DigitsFrom(s, p) ==
    IF p > Len(s) \/ ~IsDigit(s[p]) THEN <<>>
    ELSE SubSeq(s, p, Greatest({ e \in p..Len(s) :
                                   \A i \in p..e : IsDigit(s[i]) }))

NumberAt(s, p, negative) ==
    [ nan |-> DigitsFrom(s, p) = <<>>,
      value |-> IF negative THEN 0 - parseInt(DigitsFrom(s, p))
                ELSE parseInt(DigitsFrom(s, p)) ]

NumberParseInt(s) ==
    IF SignAt(s, SkipSpaces(s, 1))
    THEN NumberAt(s, SkipSpaces(s, 1) + 1, s[SkipSpaces(s, 1)] = "-")
    ELSE NumberAt(s, SkipSpaces(s, 1), FALSE)

\* parsed.tasks.filter((t) => t.status !== 'completed')
NotCompleted(tasks) == SelectSeq(tasks, LAMBDA t : t.status # Completed)

\* The first half of the selection of cmdStatus: the line of the num-th
\* task that is not completed; -1 when the identifier is no number or the
\* number is out of range.
SelectByNumber(taskList, num) ==
    IF ~num.nan /\ num.value > 0 /\ num.value <= Len(taskList)
    THEN taskList[num.value].line
    ELSE -1

\* The second half: unless a line was selected, the line of the first task
\* whose description contains the identifier; -1 when there is none.
SelectBySubstring(taskIndex, tasks, ident) ==
    IF taskIndex # -1 THEN taskIndex
    ELSE IF FindTask(tasks, ident) = 0 THEN -1
    ELSE tasks[FindTask(tasks, ident)].line

\* taskIndex as cmdStatus computes it from the parsed tasks
SelectTask(parsed, ident) ==
    SelectBySubstring(
        SelectByNumber(NotCompleted(parsed.tasks), NumberParseInt(ident)),
        parsed.tasks, ident)

\* args.command === 'done' ? 'completed' : 'in-progress'
NewStatus(command) == IF command = "done" THEN Completed ELSE InProgress

\* How cmdStatus exits and the line it selected, parsed being what its
\* readTasks returned.
CmdOutcome(parsed, ident) ==
    IF IsNull(parsed) THEN [exit |-> "no-tasks", taskIndex |-> -1]
    ELSE IF Len(ident) = 0 THEN [exit |-> "usage", taskIndex |-> -1]
    ELSE IF SelectTask(parsed, ident) = -1
    THEN [exit |-> "not-found", taskIndex |-> -1]
    ELSE [exit |-> "updated", taskIndex |-> SelectTask(parsed, ident)]

\* The identifiers given to wip and done: positions in and out of range, a
\* number with text after it, a substring, and none.
CmdIdentifiers ==
    { <<"1">>, <<"2">>, <<"0">>, <<"3">>, <<"1","a">>, <<"a">>, <<"z">>, <<>> }

CmdInit ==
    /\ cmdCommand = "none"
    /\ cmdIdentifier = <<>>
    /\ cmdTaskIndex = -1
    /\ cmdExit = "none"

\* cmdStatus({ command, identifier }) in the working directory
CmdStatus(command, ident) ==
    /\ cmdExit = "none"
    /\ cmdCommand' = command
    /\ cmdIdentifier' = ident
    /\ cmdExit' = CmdOutcome(readTasks(tasksFile, readmeFile), ident).exit
    /\ cmdTaskIndex' =
           CmdOutcome(readTasks(tasksFile, readmeFile), ident).taskIndex
    /\ IF CmdOutcome(readTasks(tasksFile, readmeFile), ident).exit = "updated"
       THEN UpdateTaskStatus(
                CmdOutcome(readTasks(tasksFile, readmeFile), ident).taskIndex,
                NewStatus(command))
       ELSE UNCHANGED fileVars

\* No command is under way.
CmdIdle == CmdInit

----------------------------------------------------------------------------
(* parser: parseTasks on documents, and on the lines it returns *)

\* How many lines a document of the core lines has at most, and how many a
\* document that may hold the other line shapes too.
MaxDocLines == 4
MaxShortLines == 2

\* The lines of the documents: a title, the two sections, a fence, a
\* checkbox and text.
CoreLines ==
    { <<"#"," ","T">>,
      <<"#","#"," ","G","o","a","l","s">>,
      <<"#","#"," ","T","a","s","k","s">>,
      <<Backtick, Backtick, Backtick>>,
      <<"-"," ","[","x","]"," ","a">>,
      <<"n">> }

\* Further line shapes: the empty line, a second title, the other markers,
\* an indented checkbox, trailing whitespace, a list item that is no
\* checkbox, a fence with a language tag, a section named Header.
OtherLines ==
    { <<>>,
      <<"#"," ","U">>,
      <<"-"," ","[","X","]"," ","a">>,
      <<"-"," ","[","]","c">>,
      <<"-"," ","[", " ", "]"," ","d">>,
      <<"-"," ","[","~","]"," ","b"," ">>,
      <<" ","-"," ","[","x","]"," ","a">>,
      <<"-"," ","e">>,
      <<Backtick, Backtick, Backtick, "j", "s">>,
      <<"#","#"," ","H","e","a","d","e","r">> }

Documents ==
    { join(ls) : ls \in UNION { [1..n -> CoreLines] : n \in 1..MaxDocLines } }
    \cup
    { join(ls) : ls \in UNION { [1..n -> CoreLines \cup OtherLines] :
                                  n \in 1..MaxShortLines } }

ParseInit ==
    /\ pContent \in Documents
    /\ ppc = "read"
    /\ pResult = NullResult
    /\ pAgain = NullResult

\* const parsed = parseTasks(content)
Parse ==
    /\ ppc = "read"
    /\ pResult' = parseTasks(pContent)
    /\ ppc' = "parsed"
    /\ UNCHANGED <<pContent, pAgain>>

\* parsed.lines.join('\n') is written and parsed again
Reparse ==
    /\ ppc = "parsed"
    /\ pAgain' = parseTasks(writeTasks(pResult))
    /\ ppc' = "reparsed"
    /\ UNCHANGED <<pContent, pResult>>

\* No document is being parsed.
ParseIdle ==
    /\ pContent = <<>>
    /\ ppc = "idle"
    /\ pResult = NullResult
    /\ pAgain = NullResult

----------------------------------------------------------------------------
(* core: two invocations of updateTaskStatus on the same TASKS.md *)

\* How many lines the TASKS.md of the two invocations has at most.
MaxRaceLines == 2

RaceLines ==
    { <<"-"," ","[","x","]"," ","a">>,
      <<"-"," ","[","]","c">>,
      <<"n">> }

RaceFiles ==
    { join(ls) : ls \in UNION { [1..n -> RaceLines] : n \in 1..MaxRaceLines } }

Invocations == {1, 2}

RaceInit ==
    /\ raceFile \in RaceFiles \cup {Absent}
    /\ raceInitial = raceFile
    /\ rpc = [p \in Invocations |-> "start"]
    /\ rargs = [p \in Invocations |-> [lineIndex |-> 0, status |-> Pending]]
    /\ rread = [p \in Invocations |-> Absent]
    /\ rparsed = [p \in Invocations |-> NullResult]
    /\ rwrote = <<>>

\* A write that appends to what the file holds.
AppendFile(current, data) == current \o data

\* The content of a file that held current after writeFile(path, data)
WriteFile(current, data) == data

\* Where an invocation is after const parsed = await readTasks() and the
\* replacement of its line: it returned null, line.replace threw, or it is
\* about to write.
AfterRead(parsed, lineIndex) ==
    IF IsNull(parsed) THEN "returned-null"
    ELSE IF lineIndex >= Len(parsed.lines) THEN "threw"
    ELSE "replaced"

\* parsed after parsed.lines[lineIndex] = newLine
Replaced(parsed, lineIndex, status) ==
    IF AfterRead(parsed, lineIndex) # "replaced" THEN NullResult
    ELSE [parsed EXCEPT !.lines[lineIndex + 1] =
              ReplaceMarker(parsed.lines[lineIndex + 1], status)]

\* Invocation p of updateTaskStatus(lineIndex, status) up to its await of
\* writeTasks: it reads TASKS.md as it is now and replaces its line in the
\* lines it holds.
RaceRead(p, lineIndex, status) ==
    /\ rpc[p] = "start"
    /\ rargs' = [rargs EXCEPT ![p] = [lineIndex |-> lineIndex,
                                      status |-> status]]
    /\ rread' = [rread EXCEPT ![p] = raceFile]
    /\ rparsed' = [rparsed EXCEPT ![p] =
                      Replaced(readTasks(raceFile, Absent), lineIndex, status)]
    /\ rpc' = [rpc EXCEPT ![p] =
                  AfterRead(readTasks(raceFile, Absent), lineIndex)]
    /\ UNCHANGED <<raceFile, raceInitial, rwrote>>

\* Invocation p writes the lines it holds and returns.
RaceWrite(p) ==
    /\ rpc[p] = "replaced"
    /\ raceFile' = WriteFile(raceFile, writeTasks(rparsed[p]))
    /\ rwrote' = Append(rwrote, p)
    /\ rpc' = [rpc EXCEPT ![p] = "returned"]
    /\ UNCHANGED <<raceInitial, rargs, rread, rparsed>>

\* No invocations race.
RaceIdle ==
    /\ raceFile = Absent
    /\ raceInitial = Absent
    /\ rpc = [p \in Invocations |-> "idle"]
    /\ rargs = [p \in Invocations |-> [lineIndex |-> 0, status |-> Pending]]
    /\ rread = [p \in Invocations |-> Absent]
    /\ rparsed = [p \in Invocations |-> NullResult]
    /\ rwrote = <<>>

----------------------------------------------------------------------------
(* config: the persisted list of scan paths *)

\* How many different paths the calls are made with.
MaxPaths == 3

ScanPathNames == <<"/a", "/b", "/c", "/d", "/e">>

PathSet == { ScanPathNames[i] : i \in 1..Min(MaxPaths, Len(ScanPathNames)) }

\* return config.get('scan_paths')
getScanPaths == scanPaths

\* paths.includes(path)
PathsInclude(paths, path) == \E i \in 1..Len(paths) : paths[i] = path

\* paths.indexOf(path), counted from 0; -1 when path is not in paths
indexOf(paths, path) ==
    IF PathsInclude(paths, path)
    THEN Least({ i \in 1..Len(paths) : paths[i] = path }) - 1
    ELSE -1

\* paths after paths.splice(index, 1)
splice(paths, index) ==
    [i \in 1..(Len(paths) - 1) |->
        IF i <= index THEN paths[i] ELSE paths[i + 1]]

\* An insertion that does not look for the path first.
PushedAlways(paths, path) == Append(paths, path)

\* The list addScanPath(path) leaves in the store
Pushed(paths, path) ==
    IF ~PathsInclude(paths, path) THEN Append(paths, path) ELSE paths

\* The list removeScanPath(path) leaves in the store
Removed(paths, path) ==
    IF indexOf(paths, path) # -1 THEN splice(paths, indexOf(paths, path))
    ELSE paths

\* The store holds a list without duplicates, and nothing was called yet.
ConfInit ==
    /\ scanPaths \in { ps \in UNION { [1..n -> PathSet] : n \in 0..MaxPaths } :
                          \A i, j \in 1..Len(ps) : ps[i] = ps[j] => i = j }
    /\ confBefore = scanPaths
    /\ confCall = "none"
    /\ confPath = ""
    /\ confReturned = Undefined

addScanPath(path) ==
    /\ confBefore' = scanPaths
    /\ confCall' = "addScanPath"
    /\ confPath' = path
    /\ scanPaths' = Pushed(getScanPaths, path)
    /\ confReturned' = Undefined

removeScanPath(path) ==
    /\ confBefore' = scanPaths
    /\ confCall' = "removeScanPath"
    /\ confPath' = path
    /\ scanPaths' = Removed(getScanPaths, path)
    /\ confReturned' = (indexOf(getScanPaths, path) # -1)

\* The store is not touched.
ConfIdle ==
    /\ scanPaths = <<>>
    /\ confBefore = <<>>
    /\ confCall = "none"
    /\ confPath = ""
    /\ confReturned = Undefined

----------------------------------------------------------------------------
(* core: initTasks, addTask and status mutations, one call after the other *)

\* How many calls are made in the working directory.
MaxCalls == 2

\* The <<"#","#"," ","T","a","s","k","s">>.md files the calls start from: a title, text and a Tasks
\* section; a section after the Tasks section; text between the Tasks
\* heading and the first task; no Tasks section; empty lines between tasks
\* and a final newline; an empty file; a Tasks section without tasks.
ProjFiles ==
    { join(<< <<"#"," ","T">>,
              <<"n">>,
              <<"#","#"," ","T","a","s","k","s">>,
              <<"-"," ","[","x","]"," ","a">>,
              <<"-"," ","[","~","]"," ","b">> >>),
      join(<< <<"#","#"," ","T","a","s","k","s">>,
              <<"-"," ","[","x","]"," ","a">>,
              <<"#","#"," ","L","a","t","e","r">>,
              <<"-"," ","["," ","]"," ","b">> >>),
      join(<< <<"#","#"," ","T","a","s","k","s">>,
              <<"n">>,
              <<"-"," ","[","x","]"," ","a">> >>),
      join(<< <<"#"," ","T">>,
              <<"-"," ","[","x","]"," ","a">> >>),
      join(<< <<"#","#"," ","T","a","s","k","s">>,
              <<>>,
              <<"-"," ","[","x","]"," ","a">>,
              <<>>,
              <<"-"," ","["," ","]"," ","b">>,
              <<>> >>),
      <<>>,
      join(<< <<"#","#"," ","G","o","a","l","s">>,
              <<"-"," ","["," ","]"," ","g">>,
              <<"#","#"," ","T","a","s","k","s">> >>) }

\* The descriptions tasks are added with.
Descriptions == { <<"d">>, <<"a">> }

\* The names and descriptions initTasks is called with.
InitNames == { <<>>, <<"N">> }

InitDescriptions == { <<>>, <<"D">> }

\* The content initTasks writes
Template(name, description) ==
    join(<< <<"#"," ">> \o (IF name # <<>> THEN name ELSE RepoBaseName),
            <<>>,
            description,
            <<>>,
            <<"#","#"," ","G","o","a","l","s">>,
            <<"-"," ","["," ","]"," ","G","o","a","l"," ","1">>,
            <<"-"," ","["," ","]"," ","G","o","a","l"," ","2">>,
            <<>>,
            <<"#","#"," ","T","a","s","k","s">>,
            <<"-"," ","["," ","]"," ","T","a","s","k"," ","1">>,
            <<"-"," ","["," ","]"," ","T","a","s","k"," ","2">>,
            <<>> >>)

\* An initTasks that overwrites whatever it finds.
InitForced(tasks, name, description, force) ==
    [threw |-> FALSE, file |-> Template(name, description)]

\* initTasks(name, description, force) on the <<"#","#"," ","T","a","s","k","s">>.md given: whether it
\* threw and the <<"#","#"," ","T","a","s","k","s">>.md it leaves
initTasks(tasks, name, description, force) ==
    IF tasks # Absent /\ ~force
    THEN [threw |-> TRUE, file |-> tasks]
    ELSE [threw |-> FALSE, file |-> Template(name, description)]

\* trimmed.startsWith('## tasks') || trimmed.startsWith('## task'), trimmed
\* being the line trimmed and lower-cased
IsTasksHeading(line) ==
    \/ startsWith(toLowerCase(trim(line)), <<"#","#"," ","t","a","s","k","s">>)
    \/ startsWith(toLowerCase(trim(line)), <<"#","#"," ","t","a","s","k">>)

\* The indices, from 0, of the lines the for loop of addTask stops at.
TasksHeadings(lines) ==
    { i \in 0..(Len(lines) - 1) : IsTasksHeading(lines[i + 1]) }

RECURSIVE SkipBlankLines(_, _)
\* while (insertIndex < lines.length && lines[insertIndex].trim() === '')
SkipBlankLines(lines, insertIndex) ==
    IF insertIndex < Len(lines) /\ trim(lines[insertIndex + 1]) = <<>>
    THEN SkipBlankLines(lines, insertIndex + 1)
    ELSE insertIndex

RECURSIVE SkipItems(_, _)
\* while (insertIndex < lines.length &&
\*        lines[insertIndex].trim().startsWith('-'))
SkipItems(lines, insertIndex) ==
    IF /\ insertIndex < Len(lines)
       /\ startsWith(trim(lines[insertIndex + 1]), <<"-">>)
    THEN SkipItems(lines, insertIndex + 1)
    ELSE insertIndex

\* insertIndex after the for loop of addTask
InsertIndex(lines) ==
    IF TasksHeadings(lines) = {} THEN -1
    ELSE SkipItems(lines,
                   SkipBlankLines(lines, Least(TasksHeadings(lines)) + 1))

\* `- ${STATUS_MARKERS.pending} ${description}`
PendingLine(description) ==
    <<"-", " ">> \o STATUS_MARKERS(Pending) \o <<" ">> \o description

\* lines after lines.splice(insertIndex, 0, line)
SpliceIn(lines, insertIndex, line) ==
    SubSeq(lines, 1, insertIndex) \o <<line>>
        \o SubSeq(lines, insertIndex + 1, Len(lines))

\* parsed.lines when addTask writes them, insertIndex being what the for
\* loop left
AddedLines(lines, insertIndex, description) ==
    IF insertIndex = -1
    THEN lines \o << <<>>, <<"#","#"," ","T","a","s","k","s">>, <<>>, PendingLine(description) >>
    ELSE SpliceIn(lines, insertIndex, PendingLine(description))

\* addTask(description) from its second line on, parsed being what
\* readTasks returned and tasks the <<"#","#"," ","T","a","s","k","s">>.md there is
AddParsed(parsed, tasks, description) ==
    IF IsNull(parsed)
    THEN [threw |-> TRUE, file |-> tasks]
    ELSE [ threw |-> FALSE,
           file |-> join(AddedLines(parsed.lines, InsertIndex(parsed.lines),
                                    description)) ]

\* addTask(description) on the files given: whether it threw and the
\* <<"#","#"," ","T","a","s","k","s">>.md it leaves
addTask(tasks, readme, description) ==
    AddParsed(readTasks(tasks, readme), tasks, description)

\* The lines of the tasks readTasks returns, which the commands hand to
\* updateTaskStatus.
TaskLines(parsed) ==
    IF IsNull(parsed) THEN {}
    ELSE { parsed.tasks[k].line : k \in 1..Len(parsed.tasks) }

ProjInit ==
    /\ tasksFile \in ProjFiles \cup {Absent}
    /\ readmeFile \in {Absent, ReadmeWithTasks}
    /\ opBefore = Absent
    /\ opLine = 0
    /\ opStatus = Pending
    /\ opResult = "none"
    /\ pjCall = "none"
    /\ pjBefore = tasksFile
    /\ pjArg = <<>>
    /\ pjThrew = FALSE
    /\ pjCalls = 0

\* tasq init
InitTasks(name, description, force) ==
    /\ pjCalls < MaxCalls
    /\ tasksFile' = initTasks(tasksFile, name, description, force).file
    /\ pjThrew' = initTasks(tasksFile, name, description, force).threw
    /\ pjCall' = "initTasks"
    /\ pjBefore' = tasksFile
    /\ pjArg' = [name |-> name, description |-> description, force |-> force]
    /\ pjCalls' = pjCalls + 1
    /\ UNCHANGED <<readmeFile, opBefore, opLine, opStatus, opResult>>

\* tasq add
AddTask(description) ==
    /\ pjCalls < MaxCalls
    /\ tasksFile' = addTask(tasksFile, readmeFile, description).file
    /\ pjThrew' = addTask(tasksFile, readmeFile, description).threw
    /\ pjCall' = "addTask"
    /\ pjBefore' = tasksFile
    /\ pjArg' = description
    /\ pjCalls' = pjCalls + 1
    /\ UNCHANGED <<readmeFile, opBefore, opLine, opStatus, opResult>>

\* A status mutation of a task readTasks returns, addressed by its line
SetStatus(lineIndex, status) ==
    /\ pjCalls < MaxCalls
    /\ lineIndex \in TaskLines(readTasks(tasksFile, readmeFile))
    /\ tasksFile' =
           updateTaskStatus(tasksFile, readmeFile, lineIndex, status).file
    /\ pjThrew' =
           (updateTaskStatus(tasksFile, readmeFile, lineIndex, status).result
               = "threw")
    /\ pjCall' = "updateTaskStatus"
    /\ pjBefore' = tasksFile
    /\ pjArg' = [lineIndex |-> lineIndex, status |-> status]
    /\ pjCalls' = pjCalls + 1
    /\ UNCHANGED <<readmeFile, opBefore, opLine, opStatus, opResult>>

\* Nothing is called in the working directory.
ProjIdle ==
    /\ pjCall = "none"
    /\ pjBefore = Absent
    /\ pjArg = <<>>
    /\ pjThrew = FALSE
    /\ pjCalls = 0

----------------------------------------------------------------------------
(* parser: parseContextSection *)

\* How many lines a document with context directives has at most.
MaxCtxLines == 3

\* The lines of these documents: the context heading, another level-2
\* heading, files: and repos: lines (capitalised, indented, with empty
\* tokens and with spaces around the tokens), a fence and text.
CtxLines ==
    { <<"#","#"," ","C","o","n","t","e","x","t">>,
      <<"#","#"," ","T","a","s","k","s">>,
      <<"f","i","l","e","s",":"," ","a",","," ","b">>,
      <<"F","i","l","e","s",":","c",",",",">>,
      <<"r","e","p","o","s",":"," ","r">>,
      <<" ","r","e","p","o","s",":"," ","s"," ",",","t">>,
      <<Backtick,Backtick,Backtick>>,
      <<"x">> }

CtxDocuments ==
    { join(ls) : ls \in UNION { [1..n -> CtxLines] : n \in 1..MaxCtxLines } }

\* s.substring(n)
substring(s, n) == SubSeq(s, Min(n, Len(s)) + 1, Len(s))

\* The positions of the commas of s.
Commas(s) == { i \in 1..Len(s) : s[i] = "," }

RECURSIVE splitCommas(_)
\* s.split(',')
splitCommas(s) ==
    IF Commas(s) = {} THEN <<s>>
    ELSE <<SubSeq(s, 1, Least(Commas(s)) - 1)>>
            \o splitCommas(SubSeq(s, Least(Commas(s)) + 1, Len(s)))

\* parts.map((s) => s.trim()).filter(Boolean)
TrimmedParts(parts) ==
    SelectSeq([i \in 1..Len(parts) |-> trim(parts[i])], LAMBDA x : x # <<>>)

\* trimmed.substring(6).split(',').map((s) => s.trim()).filter(Boolean)
DirectiveValues(trimmed) == TrimmedParts(splitCommas(substring(trimmed, 6)))

\* A directive line that replaces what was collected.
PushOverwrite(list, trimmed, key) ==
    IF startsWith(toLowerCase(trimmed), key)
    THEN DirectiveValues(trimmed)
    ELSE list

\* list after the if statement for the key ('files:' or 'repos:') on a line
\* inside the context section
PushDirective(list, trimmed, key) ==
    IF startsWith(toLowerCase(trimmed), key)
    THEN list \o DirectiveValues(trimmed)
    ELSE list

\* context and inContext before the first line
ContextStart == [inContext |-> FALSE, files |-> <<>>, repos |-> <<>>]

\* One iteration of the loop of parseContextSection, trimmed being the
\* line trimmed.
ContextLine(st, trimmed) ==
    IF toLowerCase(trimmed) = <<"#","#"," ","c","o","n","t","e","x","t">>
    THEN [st EXCEPT !.inContext = TRUE]
    ELSE IF startsWith(trimmed, <<"#", "#", " ">>)
    THEN [st EXCEPT !.inContext = FALSE]
    ELSE IF ~st.inContext THEN st
    ELSE [st EXCEPT !.files = PushDirective(st.files, trimmed, <<"f","i","l","e","s",":">>),
                    !.repos = PushDirective(st.repos, trimmed, <<"r","e","p","o","s",":">>)]

RECURSIVE ContextLoop(_, _, _)
ContextLoop(st, lines, i) ==
    IF i > Len(lines) THEN st
    ELSE ContextLoop(ContextLine(st, trim(lines[i])), lines, i + 1)

\* parseContextSection(content)
parseContextSection(content) ==
    [ files |-> ContextLoop(ContextStart, split(content), 1).files,
      repos |-> ContextLoop(ContextStart, split(content), 1).repos ]

CtxInit ==
    /\ cContent \in CtxDocuments
    /\ cpc = "read"
    /\ cResult = NullResult

\* const contextSection = parseContextSection(tasksContent)
ParseContext ==
    /\ cpc = "read"
    /\ cResult' = parseContextSection(cContent)
    /\ cpc' = "parsed"
    /\ UNCHANGED cContent

\* No document is handed to parseContextSection.
CtxIdle ==
    /\ cContent = <<>>
    /\ cpc = "idle"
    /\ cResult = NullResult

MoreIdle == ConfIdle /\ ProjIdle /\ CtxIdle

\* The operations modelled in this part are idle.
RestIdle == CmdIdle /\ ParseIdle /\ RaceIdle /\ MoreIdle

----------------------------------------------------------------------------
(* Specifications *)

\* generateRepoIds on every list of project names, statement by statement.
AllocNext ==
    \/ AllocForNext /\ UNCHANGED <<fileVars, scanVars, restVars>>
    \/ AllocWhileBody /\ UNCHANGED <<fileVars, scanVars, restVars>>
    \/ AllocAssign /\ UNCHANGED <<fileVars, scanVars, restVars>>
    \/ AllocReturn /\ UNCHANGED <<fileVars, scanVars, restVars>>

InitAlloc == AllocInit /\ FileIdle /\ ScanIdle /\ RestIdle

SpecAlloc == InitAlloc /\ [][AllocNext]_vars

\* Status mutations on every TASKS.md of the model.
FileNext ==
    \E lineIndex \in 0..MaxLines, status \in TaskStatus :
        UpdateTaskStatus(lineIndex, status)
            /\ UNCHANGED <<allocVars, scanVars, restVars>>

InitFile == FileInit /\ AllocIdle /\ ScanIdle /\ RestIdle

SpecFile == InitFile /\ [][FileNext]_vars

\* findTaskAcrossProjects on every set of scanned directories, with the
\* identifiers of the model and every task id the scan issued.
ScanNext ==
    \/ ScanAllTasks /\ UNCHANGED <<allocVars, fileVars, restVars>>
    \/ ScanWithIds /\ UNCHANGED <<allocVars, fileVars, restVars>>
    \/ ScanHangs /\ UNCHANGED <<allocVars, fileVars, restVars>>
    \/ \E ident \in Identifiers \cup IssuedTaskIds :
          FindTaskAcrossProjects(ident) /\ UNCHANGED <<allocVars, fileVars, restVars>>

InitScan == ScanInit /\ AllocIdle /\ FileIdle /\ RestIdle

SpecScan == InitScan /\ [][ScanNext]_vars

\* wip and done on every working directory of the model.
CmdNext ==
    \E command \in {"wip", "done"}, ident \in CmdIdentifiers :
        CmdStatus(command, ident)
            /\ UNCHANGED <<allocVars, scanVars, parseVars, raceVars, moreVars>>

InitCmd ==
    /\ FileInit /\ CmdInit /\ AllocIdle /\ ScanIdle /\ ParseIdle /\ RaceIdle
    /\ MoreIdle

SpecCmd == InitCmd /\ [][CmdNext]_vars

\* parseTasks on every document of the model.
ParseNext ==
    \/ Parse
          /\ UNCHANGED <<allocVars, fileVars, scanVars, cmdVars, raceVars,
                         moreVars>>
    \/ Reparse
          /\ UNCHANGED <<allocVars, fileVars, scanVars, cmdVars, raceVars,
                         moreVars>>

InitParse ==
    /\ ParseInit /\ AllocIdle /\ FileIdle /\ ScanIdle /\ CmdIdle /\ RaceIdle
    /\ MoreIdle

SpecParse == InitParse /\ [][ParseNext]_vars

\* Two invocations of updateTaskStatus, their reads and writes interleaved
\* in every order.
RaceNext ==
    \/ \E p \in Invocations, lineIndex \in 0..MaxRaceLines,
           status \in TaskStatus :
          RaceRead(p, lineIndex, status)
              /\ UNCHANGED <<allocVars, fileVars, scanVars, cmdVars, parseVars,
                             moreVars>>
    \/ \E p \in Invocations :
          RaceWrite(p)
              /\ UNCHANGED <<allocVars, fileVars, scanVars, cmdVars, parseVars,
                             moreVars>>

InitRace ==
    /\ RaceInit /\ AllocIdle /\ FileIdle /\ ScanIdle /\ CmdIdle /\ ParseIdle
    /\ MoreIdle

SpecRace == InitRace /\ [][RaceNext]_vars

\* scanAllTasksWithIds on directories whose files may be unreadable.
SkipNext ==
    \/ ScanAllTasks /\ UNCHANGED <<allocVars, fileVars, restVars>>
    \/ ScanWithIds /\ UNCHANGED <<allocVars, fileVars, restVars>>
    \/ ScanHangs /\ UNCHANGED <<allocVars, fileVars, restVars>>

InitSkip == SkipInit /\ AllocIdle /\ FileIdle /\ RestIdle

SpecSkip == InitSkip /\ [][SkipNext]_vars

\* Every sequence of addScanPath and removeScanPath calls on every list
\* without duplicates.
ConfNext ==
    \/ \E path \in PathSet :
          addScanPath(path)
              /\ UNCHANGED <<allocVars, fileVars, scanVars, cmdVars, parseVars,
                             raceVars, projVars, ctxVars>>
    \/ \E path \in PathSet :
          removeScanPath(path)
              /\ UNCHANGED <<allocVars, fileVars, scanVars, cmdVars, parseVars,
                             raceVars, projVars, ctxVars>>

InitConf ==
    /\ ConfInit /\ AllocIdle /\ FileIdle /\ ScanIdle /\ CmdIdle /\ ParseIdle
    /\ RaceIdle /\ ProjIdle /\ CtxIdle

SpecConf == InitConf /\ [][ConfNext]_vars

\* Calls of initTasks, addTask and updateTaskStatus, one after the other,
\* in every working directory of the model.
ProjNext ==
    \/ \E name \in InitNames, description \in InitDescriptions,
           force \in BOOLEAN :
          InitTasks(name, description, force)
              /\ UNCHANGED <<allocVars, scanVars, cmdVars, parseVars, raceVars,
                             confVars, ctxVars>>
    \/ \E description \in Descriptions :
          AddTask(description)
              /\ UNCHANGED <<allocVars, scanVars, cmdVars, parseVars, raceVars,
                             confVars, ctxVars>>
    \/ \E lineIndex \in TaskLines(readTasks(tasksFile, readmeFile)),
           status \in TaskStatus :
          SetStatus(lineIndex, status)
              /\ UNCHANGED <<allocVars, scanVars, cmdVars, parseVars, raceVars,
                             confVars, ctxVars>>

InitProj ==
    /\ ProjInit /\ AllocIdle /\ ScanIdle /\ CmdIdle /\ ParseIdle /\ RaceIdle
    /\ ConfIdle /\ CtxIdle

SpecProj == InitProj /\ [][ProjNext]_vars

\* parseContextSection on every document with context directives.
CtxNext ==
    ParseContext
        /\ UNCHANGED <<allocVars, fileVars, scanVars, cmdVars, parseVars,
                       raceVars, confVars, projVars>>

InitCtx ==
    /\ CtxInit /\ AllocIdle /\ FileIdle /\ ScanIdle /\ CmdIdle /\ ParseIdle
    /\ RaceIdle /\ ConfIdle /\ ProjIdle

SpecCtx == InitCtx /\ [][CtxNext]_vars

----------------------------------------------------------------------------
(* Claims about generateRepoIds, checked under SpecAlloc *)

Distinct(s) == \A i, j \in 1..Len(s) : i # j => s[i] # s[j]

IsPrefix(p, s) == startsWith(s, p)

\* C1: for pairwise-distinct project names, every id issued is a prefix of
\* the lower-cased name it was issued to, the ids issued are pairwise
\* distinct, and when generateRepoIds returns the map holds exactly one
\* entry per name.
C1_UniquePrefixIds ==
    Distinct(projectNames) =>
        /\ \A n \in DOMAIN ids : IsPrefix(ids[n], toLowerCase(n))
        /\ \A n, m \in DOMAIN ids : n # m => ids[n] # ids[m]
        /\ used = { ids[n] : n \in DOMAIN ids }
        /\ apc = "done" =>
              /\ DOMAIN ids = Range(projectNames)
              /\ Cardinality(DOMAIN ids) = Len(projectNames)

\* Names that differ in case only were both given an id.
C1_Witness ==
    /\ apc = "done"
    /\ Distinct(projectNames)
    /\ \E i, j \in 1..Len(projectNames) :
          /\ i # j
          /\ toLowerCase(projectNames[i]) = toLowerCase(projectNames[j])

\* The ids issued to the names before position j.
IssuedBefore(j) == { ids[projectNames[i]] : i \in 1..(j - 1) }

\* The number of names that have been given their id.
Assigned == IF apc = "while" THEN idx - 1 ELSE idx

\* C2: names are processed in the given order and each gets the shortest
\* prefix of its lower-cased form, from length 1 up, that no earlier name of
\* the list was given; the first name gets its 1-character prefix, and
\* alpha, apple, apricot get a, ap, apr.
C2_ShortestFirstWins ==
    Distinct(projectNames) =>
        /\ \A j \in 1..Assigned :
              LET l == toLowerCase(projectNames[j])
                  got == ids[projectNames[j]]
              IN  \E k \in 1..MaxLen :
                      /\ got = SubSeq(l, 1, Min(k, Len(l)))
                      /\ got \notin IssuedBefore(j)
                      /\ \A k2 \in 1..(k - 1) :
                            SubSeq(l, 1, Min(k2, Len(l))) \in IssuedBefore(j)
        /\ Assigned >= 1 =>
              ids[projectNames[1]] =
                  SubSeq(toLowerCase(projectNames[1]), 1,
                         Min(1, Len(projectNames[1])))
        /\ (apc = "done" /\ projectNames = <<alpha, apple, apricot>>) =>
              /\ ids[alpha] = <<"a">>
              /\ ids[apple] = <<"a","p">>
              /\ ids[apricot] = <<"a","p","r">>

\* The documented example has been allocated.
C2_Witness ==
    /\ apc = "done"
    /\ projectNames = <<alpha, apple, apricot>>
    /\ ids[apricot] = <<"a","p","r">>

\* The while loop is at a candidate that is already issued and that one more
\* character does not change: no later iteration can leave the loop.
AllocSpins ==
    /\ apc = "while"
    /\ id \in used
    /\ Candidate(CurrentName, len + 1) = id

\* C3: for distinct names generateRepoIds terminates: it never keeps
\* extending the candidate of an exhausted name forever.
C3_NeverSpins == Distinct(projectNames) => ~AllocSpins

----------------------------------------------------------------------------
(* Claims about the status mutator, checked under SpecFile *)

\* The tasks parseTasks finds in a content.
TasksOf(content) == Range(parseTasks(content).tasks)

\* The last operation was a status mutation that wrote an existing TASKS.md.
Mutated == opResult = "written" /\ opBefore # Absent

\* C4: a task recognized at line L with status S, mutated at line L to a
\* status S' # S, is found after re-parsing the written file at line L with
\* status S' and the same description, for every line shape the parser
\* accepts.
C4_StatusRoundTrip ==
    Mutated =>
        LET after == TasksOf(tasksFile)
        IN  \A t \in TasksOf(opBefore) :
                (t.line = opLine /\ t.status # opStatus) =>
                    \E u \in after :
                        /\ u.line = opLine
                        /\ u.status = opStatus
                        /\ u.description = t.description

\* The text of a line after the closing bracket of its checkbox.
AfterBracket(line) ==
    SubSeq(line, MatchCheckbox(line).end + 1, Len(line))

\* C5: a status mutation on line L keeps the number of lines, every other
\* line byte for byte, the text of line L after the closing bracket, and
\* the status of every other task.
C5_MutationFrame ==
    Mutated =>
        LET before == split(opBefore)
            after == split(tasksFile)
            tasksBefore == TasksOf(opBefore)
            tasksAfter == TasksOf(tasksFile)
        IN  /\ Len(after) = Len(before)
            /\ \A i \in 1..Len(before) :
                  i # opLine + 1 => after[i] = before[i]
            /\ IF MatchCheckbox(before[opLine + 1]).matched
               THEN /\ MatchCheckbox(after[opLine + 1]).matched
                    /\ AfterBracket(after[opLine + 1])
                           = AfterBracket(before[opLine + 1])
               ELSE after[opLine + 1] = before[opLine + 1]
            /\ \A t \in tasksBefore : t.line # opLine => t \in tasksAfter
            /\ \A u \in tasksAfter : u.line # opLine => u \in tasksBefore

\* A mutation changed the marker of one task of a file that holds another.
C5_Witness ==
    /\ Mutated
    /\ tasksFile # opBefore
    /\ \E t \in TasksOf(opBefore) : t.line # opLine
    /\ \E t \in TasksOf(opBefore) : t.line = opLine /\ t.status # opStatus

----------------------------------------------------------------------------
(* Claims about the multi-project scan and lookup, checked under SpecScan *)

\* scanAllTasksWithIds has returned.
HasIds == spc \in {"ids", "returned"}

\* findTaskAcrossProjects has returned.
Returned == spc = "returned"

\* C6: for every project result with repoId r and n tasks and every k in
\* 1..n, locating the identifier r followed by the decimal k returns that
\* project together with the k-th task of its list.
C6_CompactRoundTrip ==
    Returned =>
        \A k \in 1..Len(results) : \A j \in 1..Len(results[k].tasks) :
            identifier = results[k].tasks[j].id =>
                /\ ~IsNull(found)
                /\ found.path = results[k].path
                /\ found.task = results[k].tasks[j]

\* C7: the project names handed to the allocator are pairwise distinct, no
\* two project results share a repoId and no two tasks of the results share
\* a compact id.
C7_DistinctNamesAndIds ==
    HasIds =>
        /\ Distinct(ScannedNames)
        /\ \A k, l \in 1..Len(results) :
              k # l => results[k].repoId # results[l].repoId
        /\ \A k, l \in 1..Len(results) :
              \A i \in 1..Len(results[k].tasks) :
                  \A j \in 1..Len(results[l].tasks) :
                      (k # l \/ i # j) =>
                          results[k].tasks[i].id # results[l].tasks[j].id

\* The text of s after its first n characters.
Suffix(s, n) == SubSeq(s, n + 1, Len(s))

\* s is a non-empty string of digits with no leading zero that reads as n.
IsDecimalOf(s, n) ==
    /\ Len(s) >= 1
    /\ \A i \in 1..Len(s) : IsDigit(s[i])
    /\ Len(s) > 1 => s[1] # "0"
    /\ parseInt(s) = n

\* C8: after scanAllTasksWithIds each result keeps its place in scan order
\* and its tasks, its repoId is what the allocator gave its project name
\* over the scan-order list of names, and the task at 0-based position i has
\* the id repoId followed by the decimal i + 1, whatever its section.
C8_IdsInListOrder ==
    HasIds =>
        /\ Len(results) = Len(scanned)
        /\ \A k \in 1..Len(results) :
              /\ results[k].path = scanned[k].path
              /\ results[k].repoId =
                     generateRepoIds(ScannedNames).ids[scanned[k].projectName]
              /\ Len(results[k].tasks) = Len(scanned[k].tasks)
              /\ \A i \in 1..Len(results[k].tasks) :
                    LET t == results[k].tasks[i]
                    IN  /\ startsWith(t.id, results[k].repoId)
                        /\ IsDecimalOf(Suffix(t.id, Len(results[k].repoId)), i)
                        /\ t.description = scanned[k].tasks[i].description
                        /\ t.line = scanned[k].tasks[i].line
                        /\ t.section = scanned[k].tasks[i].section

\* A second project in scan order got a two-letter repoId, and its goal, its
\* task and its README task are numbered 1, 2, 3.
C8_Witness ==
    /\ HasIds
    /\ Len(results) >= 2
    /\ results[2].repoId = <<"a","b">>
    /\ Len(results[2].tasks) = 3
    /\ results[2].tasks[1].section = GoalsSection
    /\ results[2].tasks[2].section = TasksSection
    /\ results[2].tasks[3].section = ReadmeSection
    /\ results[2].tasks[3].id = <<"a","b","3">>

\* One or more lowercase letters followed by one or more digits.
CompactShape(s) ==
    \E m \in 1..(Len(s) - 1) :
        /\ \A i \in 1..m : IsLowerLetter(s[i])
        /\ \A i \in (m + 1)..Len(s) : IsDigit(s[i])

\* C9: every task id a multi-project scan assigns is one or more lowercase
\* letters followed by one or more digits, whatever the project name.
C9_CompactShapeIds ==
    HasIds =>
        \A k \in 1..Len(results) : \A j \in 1..Len(results[k].tasks) :
            CompactShape(results[k].tasks[j].id)

\* Project p has the repoId and a task at the position that ident names as
\* a compact id.
NamedBy(ident, p) ==
    \E m \in 1..(Len(ident) - 1) :
        /\ \A i \in 1..m : IsLowerLetter(ident[i])
        /\ \A i \in (m + 1)..Len(ident) : IsDigit(ident[i])
        /\ results[p].repoId = SubSeq(ident, 1, m)
        /\ parseInt(Suffix(ident, m)) \in 1..Len(results[p].tasks)

\* The 1-based position that the digits of a compact id name.
PositionIn(ident) ==
    parseInt(Suffix(ident, CHOOSE m \in 0..Len(ident) :
                               /\ \A i \in 1..m : ~IsDigit(ident[i])
                               /\ \A i \in (m + 1)..Len(ident) :
                                     IsDigit(ident[i])))

\* Task j of project p is the first, in scan order of projects and list
\* order of tasks, whose description contains ident case-insensitively.
FirstContaining(ident, p, j) ==
    /\ DescriptionMatches(results[p].tasks[j], ident)
    /\ \A i \in 1..(j - 1) : ~DescriptionMatches(results[p].tasks[i], ident)
    /\ \A q \in 1..(p - 1) : \A i \in 1..Len(results[q].tasks) :
          ~DescriptionMatches(results[q].tasks[i], ident)

\* C10: findTaskAcrossProjects returns the project and task a compact
\* identifier names when there is one, whatever the descriptions of earlier
\* projects; otherwise the first task in scan order whose description
\* contains the identifier case-insensitively; otherwise not-found.
C10_ResolutionOrder ==
    Returned =>
        IF \E p \in 1..Len(results) : NamedBy(identifier, p)
        THEN \E p \in 1..Len(results) :
                /\ NamedBy(identifier, p)
                /\ \A q \in 1..(p - 1) : ~NamedBy(identifier, q)
                /\ ~IsNull(found)
                /\ found.path = results[p].path
                /\ found.repoId = results[p].repoId
                /\ found.task = results[p].tasks[PositionIn(identifier)]
        ELSE IF \E p \in 1..Len(results) : \E j \in 1..Len(results[p].tasks) :
                   DescriptionMatches(results[p].tasks[j], identifier)
        THEN \E p \in 1..Len(results) : \E j \in 1..Len(results[p].tasks) :
                /\ FirstContaining(identifier, p, j)
                /\ ~IsNull(found)
                /\ found.path = results[p].path
                /\ found.task = results[p].tasks[j]
        ELSE IsNull(found)

\* A compact id was resolved to the second project although a description
\* of the first project contains the identifier.
C10_Witness ==
    /\ Returned
    /\ Len(results) >= 2
    /\ NamedBy(identifier, 2)
    /\ \E j \in 1..Len(results[1].tasks) :
          DescriptionMatches(results[1].tasks[j], identifier)
    /\ ~IsNull(found)
    /\ found.path = results[2].path

----------------------------------------------------------------------------
(* Claims about wip and done, checked under SpecCmd *)

\* The TASKS.md that cmdStatus found.
CmdFound == IF cmdExit = "updated" THEN opBefore ELSE tasksFile

\* The project as cmdStatus read it.
CmdParsed == readTasks(CmdFound, readmeFile)

\* C11: for a project with n tasks and 1 <= k <= n, wip or done with the
\* identifier k selects the task at position k of the project.
C11_NumberIsPosition ==
    (cmdExit # "none" /\ ~IsNull(CmdParsed)) =>
        \A k \in 1..Len(CmdParsed.tasks) :
            cmdIdentifier = ToDecimal(k) =>
                /\ cmdExit = "updated"
                /\ cmdTaskIndex = CmdParsed.tasks[k].line

----------------------------------------------------------------------------
(* Claims about parseTasks, checked under SpecParse *)

\* parseTasks has returned.
Parsed == ppc \in {"parsed", "reparsed"}

\* The lines of the document.
DocLines == split(pContent)

\* A line that opens or closes a code fence.
FenceLine(l) == startsWith(trim(l), <<Backtick, Backtick, Backtick>>)

\* Line i (1-based) is a fence line or lies between an opening fence and
\* its closing fence.
Fenced(lines, i) ==
    \/ FenceLine(lines[i])
    \/ Cardinality({ j \in 1..(i - 1) : FenceLine(lines[j]) }) % 2 = 1

\* t is a dash and a space, optional whitespace, and a bracket pair that
\* holds nothing or one of x, ~ and the space.
CheckboxShape(t) ==
    /\ startsWith(t, <<"-", " ">>)
    /\ \E b \in 3..Len(t) :
          /\ \A i \in 2..(b - 1) : IsSpace(t[i])
          /\ t[b] = "["
          /\ \/ b + 1 <= Len(t) /\ t[b + 1] = "]"
             \/ b + 2 <= Len(t) /\ t[b + 1] \in {"x", "~", " "}
                    /\ t[b + 2] = "]"

\* Line i (1-based) is a checkbox line outside the code fences.
Recognized(lines, i) ==
    ~Fenced(lines, i) /\ CheckboxShape(trim(lines[i]))

HeadingBefore(lines, i) ==
    FirstIndex({ j \in 1..(i - 1) :
        /\ ~Fenced(lines, j)
        /\ \/ startsWith(trim(lines[j]), <<"#", " ">>)
           \/ startsWith(trim(lines[j]), <<"#", "#", " ">>)
        /\ \A k \in (j + 1)..(i - 1) :
              \/ Fenced(lines, k)
              \/ /\ ~startsWith(trim(lines[k]), <<"#", " ">>)
                 /\ ~startsWith(trim(lines[k]), <<"#", "#", " ">>) })

\* The active section at line i (1-based) is literally 'goals'.
UnderGoals(lines, i) ==
    /\ HeadingBefore(lines, i) # 0
    /\ startsWith(trim(lines[HeadingBefore(lines, i)]), <<"#", "#", " ">>)
    /\ toLowerCase(StripHeading(trim(lines[HeadingBefore(lines, i)]), 2))
           = GoalsSection

BracketOpens(t) == SkipSpaces(t, 2)

BracketCloses(t) ==
    IF BracketOpens(t) + 1 <= Len(t) /\ t[BracketOpens(t) + 1] = "]"
    THEN BracketOpens(t) + 1
    ELSE BracketOpens(t) + 2

\* t is '- [m] text' with the marker m empty, a space, x, X or ~.
MarkedItem(t) ==
    /\ startsWith(t, <<"-", " ">>)
    /\ BracketCloses(t) <= Len(t)
    /\ t[BracketOpens(t)] = "["
    /\ t[BracketCloses(t)] = "]"
    /\ BracketCloses(t) = BracketOpens(t) + 2 =>
           t[BracketOpens(t) + 1] \in {"x", "X", "~", " "}

\* The status that the marker of such a line stands for.
MarkedStatus(t) ==
    IF BracketCloses(t) = BracketOpens(t) + 1 THEN Pending
    ELSE IF t[BracketOpens(t) + 1] \in {"x", "X"} THEN Completed
    ELSE IF t[BracketOpens(t) + 1] = "~" THEN InProgress
    ELSE Pending

\* C14: a line '- [m] text' outside the code fences is recognized as a task
\* for each marker m among empty, space, x, X and ~, with status completed
\* for x and X, in-progress for ~ and pending otherwise, and with the
\* trimmed text after the bracket as its description.
C14_MarkersRecognized ==
    Parsed =>
        \A i \in 1..Len(DocLines) :
            (~Fenced(DocLines, i) /\ MarkedItem(trim(DocLines[i]))) =>
                \E k \in 1..Len(pResult.tasks) :
                    /\ pResult.tasks[k].line = i - 1
                    /\ pResult.tasks[k].status = MarkedStatus(trim(DocLines[i]))
                    /\ pResult.tasks[k].description =
                           trim(Suffix(trim(DocLines[i]),
                                       BracketCloses(trim(DocLines[i]))))

\* The lines that are a level-1 heading outside the code fences.
TitleLines ==
    { i \in 1..Len(DocLines) :
        ~Fenced(DocLines, i) /\ startsWith(trim(DocLines[i]), <<"#", " ">>) }

\* C15: when a document has several level-1 headings, the title returned is
\* the text of the first one.
C15_FirstTitleWins ==
    (Parsed /\ TitleLines # {}) =>
        pResult.name = StripHeading(trim(DocLines[Least(TitleLines)]), 1)

\* Line i (1-based) lies between an opening fence and its closing fence.
InsideFence(lines, i) == Fenced(lines, i) /\ ~FenceLine(lines[i])

\* The document with every line between fences emptied.
FencesEmptied ==
    join([ i \in 1..Len(DocLines) |->
             IF InsideFence(DocLines, i) THEN <<>> ELSE DocLines[i] ])

\* C16: no line between an opening fence and its closing fence is read as
\* a heading or a checkbox: none is the line of a task, and the title, the
\* tasks with their sections and the goals are those of the document with
\* these lines emptied, so parsing resumes after the closing fence.
C16_FencedLinesIgnored ==
    Parsed =>
        /\ \A k \in 1..Len(pResult.tasks) :
              ~InsideFence(DocLines, pResult.tasks[k].line + 1)
        /\ pResult.name = parseTasks(FencesEmptied).name
        /\ pResult.tasks = parseTasks(FencesEmptied).tasks
        /\ pResult.goals = parseTasks(FencesEmptied).goals

\* A document was parsed that fences a checkbox or a heading and has a task
\* after the closing fence.
C16_Witness ==
    /\ Parsed
    /\ \E i \in 1..Len(DocLines) :
          /\ InsideFence(DocLines, i)
          /\ \/ CheckboxShape(trim(DocLines[i]))
             \/ startsWith(trim(DocLines[i]), <<"#">>)
          /\ \E k \in 1..Len(pResult.tasks) : pResult.tasks[k].line + 1 > i + 1

\* Line j (1-based) is a heading of level 1 or 2 or a checkbox, outside
\* the code fences.
Structural(lines, j) ==
    /\ ~Fenced(lines, j)
    /\ \/ startsWith(trim(lines[j]), <<"#", " ">>)
       \/ startsWith(trim(lines[j]), <<"#", "#", " ">>)
       \/ CheckboxShape(trim(lines[j]))

\* The last heading or checkbox before line i; 0 if there is none.
LastStructural(lines, i) ==
    IF \A j \in 1..(i - 1) : ~Structural(lines, j) THEN 0
    ELSE Greatest({ j \in 1..(i - 1) : Structural(lines, j) })

\* Line i (1-based) is text directly under a ## Tasks heading, before the
\* first checkbox of that section.
NoteLine(lines, i) ==
    /\ ~Fenced(lines, i)
    /\ Len(lines[i]) > 0
    /\ ~startsWith(lines[i], <<"#">>)
    /\ ~startsWith(trim(lines[i]), <<"-">>)
    /\ LastStructural(lines, i) # 0
    /\ startsWith(trim(lines[LastStructural(lines, i)]), <<"#", "#", " ">>)
    /\ toLowerCase(StripHeading(trim(lines[LastStructural(lines, i)]), 2))
           = TasksSection

\* The lines of the document that are note lines, in order.
NoteLines ==
    SelectSeq([ i \in 1..Len(DocLines) |-> [at |-> i, text |-> DocLines[i]] ],
              LAMBDA l : NoteLine(DocLines, l.at))

C18_ReparseIdentical ==
    ppc = "reparsed" =>
        /\ pAgain.lines = pResult.lines
        /\ pAgain.tasks = pResult.tasks

\* A document with an empty line before its first task was parsed twice.
C18_Witness ==
    /\ ppc = "reparsed"
    /\ Len(pAgain.tasks) >= 1
    /\ \E i \in 1..Len(pResult.lines) :
          pResult.lines[i] = <<>> /\ i - 1 < pAgain.tasks[1].line

----------------------------------------------------------------------------
(* Further claims about the status mutator, checked under SpecFile *)

\* C19: when TASKS.md does not exist, the status mutator fails the whole
\* operation: it writes nothing, creates no file and does not end as an
\* update.
C19_MissingFileFails ==
    (opResult # "none" /\ opBefore = Absent) =>
        /\ tasksFile = Absent
        /\ opResult # "written"

----------------------------------------------------------------------------
(* Claims about racing status mutations, checked under SpecRace *)

\* The invocation that wrote last, and the one that wrote first.
LastWriter == rwrote[Len(rwrote)]
FirstWriter == rwrote[1]

\* The line that invocation p read at its line index, with the marker of
\* its status in place of the matched marker.
LineChangedBy(p) ==
    LET line == split(rread[p])[rargs[p].lineIndex + 1]
    IN  IF MatchCheckbox(line).matched
        THEN <<"-", " ">> \o STATUS_MARKERS(rargs[p].status)
                 \o AfterBracket(line)
        ELSE line

\* C20: after any interleaving of the reads and writes of two invocations
\* the file is what the last writer wrote, its own read snapshot with its
\* one line changed; when both wrote and the later writer had read the
\* file as it was before the earlier write, every other line is as it was
\* at the start, so the earlier writer's change is lost.
C20_LastWriterWins ==
    rwrote # <<>> =>
        /\ Len(split(raceFile)) = Len(split(rread[LastWriter]))
        /\ \A i \in 1..Len(split(raceFile)) :
              split(raceFile)[i] =
                  IF i = rargs[LastWriter].lineIndex + 1
                  THEN LineChangedBy(LastWriter)
                  ELSE split(rread[LastWriter])[i]
        /\ (Len(rwrote) = 2 /\ rread[LastWriter] = raceInitial) =>
              \A i \in 1..Len(split(raceInitial)) :
                  i # rargs[LastWriter].lineIndex + 1 =>
                      split(raceFile)[i] = split(raceInitial)[i]

\* Both invocations wrote, the earlier one changed the marker of a line of
\* its own, and the file holds that line as it was at the start.
C20_Witness ==
    /\ Len(rwrote) = 2
    /\ rargs[FirstWriter].lineIndex # rargs[LastWriter].lineIndex
    /\ rread[FirstWriter] = raceInitial
    /\ LineChangedBy(FirstWriter) #
           split(raceInitial)[rargs[FirstWriter].lineIndex + 1]
    /\ split(raceFile)[rargs[FirstWriter].lineIndex + 1] =
           split(raceInitial)[rargs[FirstWriter].lineIndex + 1]
    /\ split(raceFile)[rargs[LastWriter].lineIndex + 1] #
           split(raceInitial)[rargs[LastWriter].lineIndex + 1]

----------------------------------------------------------------------------
(* C21 *)

\* The entries of a list other than path, in their order.
Without(paths, path) == SelectSeq(paths, LAMBDA x : x # path)

\* C21: after any sequence of addScanPath and removeScanPath calls on a
\* list without duplicates, the persisted list has no duplicate; adding a
\* path already present leaves the list as it was and adding an absent one
\* appends it at the end; removing a present path returns true and leaves
\* the other entries in their order, removing an absent one returns false
\* and leaves the list as it was.
C21_ScanPathsContract ==
    /\ Distinct(scanPaths)
    /\ confCall = "addScanPath" =>
          IF PathsInclude(confBefore, confPath)
          THEN scanPaths = confBefore
          ELSE scanPaths = Append(confBefore, confPath)
    /\ confCall = "removeScanPath" =>
          IF PathsInclude(confBefore, confPath)
          THEN /\ confReturned = TRUE
               /\ scanPaths = Without(confBefore, confPath)
               /\ Len(scanPaths) = Len(confBefore) - 1
          ELSE /\ confReturned = FALSE
               /\ scanPaths = confBefore

\* A path was removed from the middle of a list of three.
C21_Witness ==
    /\ confCall = "removeScanPath"
    /\ Len(confBefore) = 3
    /\ confBefore[2] = confPath
    /\ confReturned = TRUE
    /\ Len(scanPaths) = 2

----------------------------------------------------------------------------
(* C23 *)

\* The files of fsys without those that cannot be read.
ReadableFiles ==
    [ d \in Dirs |->
        [ tasks |-> IF fsys[d].tasks = Unreadable THEN Absent
                    ELSE fsys[d].tasks,
          readme |-> IF fsys[d].readme = Unreadable THEN Absent
                     ELSE fsys[d].readme ] ]

ReadableTasks == { d \in Dirs : ReadableFiles[d].tasks # Absent }

ReadableReadmes == { d \in Dirs : ReadableFiles[d].readme # Absent }

Scanned == spc \in {"scanned", "ids", "hung"}

\* C23: a file that cannot be read never aborts the scan and leaves no
\* trace in its results: scanAllTasks returns what it returns when the
\* unreadable files are not there, the readable files being found in some
\* order.
C23_UnreadableFilesOmitted ==
    Scanned =>
        \E tasksFiles \in Orders(ReadableTasks),
           readmeFiles \in Orders(ReadableReadmes) :
            scanned = scanAllTasks(ReadableFiles, tasksFiles, readmeFiles)

\* A scan returned the result of one directory's TASKS.md and, for a
\* directory whose TASKS.md cannot be read, the result of its README.md.
C23_Witness ==
    /\ Scanned
    /\ Len(scanned) = 2
    /\ \E k \in 1..2 : /\ scanned[k].path.file = "README.md"
                        /\ fsys[scanned[k].path.dir].tasks = Unreadable
    /\ \E k \in 1..2, d \in Dirs : /\ scanned[k].path.file = "TASKS.md"
                                   /\ fsys[d].readme = Unreadable

----------------------------------------------------------------------------
(* C22 *)

\* addTask found a TASKS.md and wrote it.
Added == pjCall = "addTask" /\ pjBefore # Absent /\ ~pjThrew

\* Two tasks that differ in their line at most.
SameTask(t, u) ==
    /\ t.status = u.status
    /\ t.description = u.description
    /\ t.section = u.section

\* The tasks of after are those of before, in their order, with one more
\* task at position k.
InsertedAt(before, after, k) ==
    /\ Len(after) = Len(before) + 1
    /\ k \in 1..Len(after)
    /\ \A j \in 1..Len(before) :
          SameTask(before[j], after[IF j < k THEN j ELSE j + 1])

\* C22: after addTask(d) on a project with a TASKS.md, parsing the file
\* written yields the tasks there were, in their order and with their
\* status, description and section, and one more task, which is pending,
\* described by d and in the tasks section; the name, the description and
\* the notes of the document are as they were.
C22_AddTaskFrame ==
    Added =>
        /\ \E k \in 1..Len(parseTasks(tasksFile).tasks) :
              /\ InsertedAt(parseTasks(pjBefore).tasks,
                            parseTasks(tasksFile).tasks, k)
              /\ parseTasks(tasksFile).tasks[k].status = Pending
              /\ parseTasks(tasksFile).tasks[k].description = pjArg
              /\ parseTasks(tasksFile).tasks[k].section = TasksSection
        /\ parseTasks(tasksFile).name = parseTasks(pjBefore).name
        /\ parseTasks(tasksFile).description = parseTasks(pjBefore).description
        /\ parseTasks(tasksFile).notes = parseTasks(pjBefore).notes

----------------------------------------------------------------------------
(* C24 *)

ContextParsed == cpc = "parsed"

CtxDocLines == split(cContent)

\* The line is a heading equal to '## context', whatever its case.
IsContextHeading(l) == toLowerCase(trim(l)) = <<"#","#"," ","c","o","n","t","e","x","t">>

\* The line is a level-2 heading.
IsLevel2Heading(l) == startsWith(trim(l), <<"#", "#", " ">>)

\* Line i (1-based) lies between a context heading and the next level-2
\* heading.
InContextSpan(lines, i) ==
    /\ ~IsLevel2Heading(lines[i])
    /\ \E h \in 1..(i - 1) :
          /\ IsContextHeading(lines[h])
          /\ \A j \in (h + 1)..(i - 1) : ~IsLevel2Heading(lines[j])

\* The line is a 'files:' or a 'repos:' line, key being the one or the
\* other.
IsDirective(l, key) == startsWith(toLowerCase(trim(l)), key)

RECURSIVE Collected(_, _, _)
\* The tokens of the key's lines among the first n lines that lie in a
\* span, line after line.
Collected(lines, key, n) ==
    IF n = 0 THEN <<>>
    ELSE Collected(lines, key, n - 1)
            \o (IF InContextSpan(lines, n) /\ IsDirective(lines[n], key)
                THEN DirectiveValues(trim(lines[n]))
                ELSE <<>>)

\* s without its commas and its whitespace.
Squeezed(s) == SelectSeq(s, LAMBDA c : c # "," /\ ~IsSpace(c))

RECURSIVE Flattened(_)
\* The strings of a list, one after the other.
Flattened(list) ==
    IF list = <<>> THEN <<>> ELSE Head(list) \o Flattened(Tail(list))

RECURSIVE SpanText(_, _, _)
\* What the key's lines in a span among the first n lines hold after the
\* key, without commas and whitespace.
SpanText(lines, key, n) ==
    IF n = 0 THEN <<>>
    ELSE SpanText(lines, key, n - 1)
            \o (IF InContextSpan(lines, n) /\ IsDirective(lines[n], key)
                THEN Squeezed(substring(trim(lines[n]), 6))
                ELSE <<>>)

\* Every entry is trimmed, not empty and holds no comma, and the entries
\* together are what the key's lines in a span hold.
TokensOf(list, key) ==
    /\ \A k \in 1..Len(list) :
          /\ list[k] # <<>>
          /\ trim(list[k]) = list[k]
          /\ "," \notin Range(list[k])
    /\ Squeezed(Flattened(list)) = SpanText(CtxDocLines, key, Len(CtxDocLines))

\* C24: parseContextSection collects directives only between a heading
\* equal to '## context', whatever its case, and the next level-2 heading:
\* files holds, in order, the trimmed non-empty comma-separated tokens of
\* every 'files:' line in such a span, and repos those of every 'repos:'
\* line; several lines accumulate and lines outside a span add nothing.
C24_ContextDirectives ==
    ContextParsed =>
        /\ cResult.files = Collected(CtxDocLines, <<"f","i","l","e","s",":">>, Len(CtxDocLines))
        /\ cResult.repos = Collected(CtxDocLines, <<"r","e","p","o","s",":">>, Len(CtxDocLines))
        /\ TokensOf(cResult.files, <<"f","i","l","e","s",":">>)
        /\ TokensOf(cResult.repos, <<"r","e","p","o","s",":">>)

\* Two files: lines under the context heading were collected, one after
\* the other.
C24_Witness ==
    /\ ContextParsed
    /\ Len(CtxDocLines) = 3
    /\ IsContextHeading(CtxDocLines[1])
    /\ cResult.files = << <<"a">>, <<"b">>, <<"c">> >>

----------------------------------------------------------------------------
(* C28 *)

\* The document with its fence lines and every line between fences
\* emptied.
CtxUnfenced ==
    join([ i \in 1..Len(CtxDocLines) |->
             IF Fenced(CtxDocLines, i) THEN <<>> ELSE CtxDocLines[i] ])

\* C28: a '## Context' heading, a level-2 heading and a 'files:' or
\* 'repos:' line inside a fenced code block neither open or close the
\* context span nor add entries: parseContextSection returns what it
\* returns for the document with the fenced lines emptied.
C28_FencedDirectivesIgnored ==
    ContextParsed => cResult = parseContextSection(CtxUnfenced)

----------------------------------------------------------------------------
(* C25 *)

Initialised == pjCall = "initTasks"

\* initTasks was called where it refuses: there is a TASKS.md and force
\* is false.
Refuses == pjBefore # Absent /\ ~pjArg.force

\* The title initTasks was asked for: the name given, or the name of the
\* directory when none was given.
RequestedTitle == IF pjArg.name # <<>> THEN pjArg.name ELSE RepoBaseName

\* Every task of the list is pending and in the section given.
AllPendingIn(tasks, section) ==
    \A k \in 1..Len(tasks) :
        tasks[k].status = Pending /\ tasks[k].section = section

\* C25: initTasks fails and leaves TASKS.md as it was when the file exists
\* and force is false; otherwise it writes the template, whose parse has
\* the requested title, two pending goals and two further pending tasks.
C25_InitRefusesOverwrite ==
    Initialised =>
        IF Refuses
        THEN pjThrew /\ tasksFile = pjBefore
        ELSE /\ ~pjThrew
             /\ parseTasks(tasksFile).name = RequestedTitle
             /\ Len(parseTasks(tasksFile).goals) = 2
             /\ AllPendingIn(parseTasks(tasksFile).goals, GoalsSection)
             /\ Len(parseTasks(tasksFile).tasks) = 4
             /\ SubSeq(parseTasks(tasksFile).tasks, 1, 2)
                    = parseTasks(tasksFile).goals
             /\ AllPendingIn(SubSeq(parseTasks(tasksFile).tasks, 3, 4),
                             TasksSection)

\* The second call was initTasks with force on a TASKS.md with one task,
\* and it wrote the template.
C25_Witness ==
    /\ Initialised
    /\ pjCalls = 2
    /\ pjArg.force
    /\ pjBefore # Absent
    /\ Len(parseTasks(pjBefore).tasks) = 1
    /\ Len(parseTasks(tasksFile).tasks) = 4

----------------------------------------------------------------------------
(* C26 *)

\* The line is a level-1 heading.
IsLevel1Heading(l) == startsWith(trim(l), <<"#", " ">>)

\* The section tag of a task at line i (1-based): none before the first
\* heading and under a level-1 heading, and the lower-cased text of the
\* level-2 heading otherwise.
SectionTagAt(lines, i) ==
    IF HeadingBefore(lines, i) = 0 THEN Undefined
    ELSE IF IsLevel1Heading(lines[HeadingBefore(lines, i)]) THEN Undefined
    ELSE toLowerCase(StripHeading(trim(lines[HeadingBefore(lines, i)]), 2))

\* C26: every task carries as its section the lower-cased text of the most
\* recent level-2 heading before it, and no section when no heading came
\* before it or when the most recent heading is a level-1 heading, which
\* sets the header pseudo-section, also after a level-2 heading.
C26_SectionTags ==
    Parsed =>
        \A k \in 1..Len(pResult.tasks) :
            pResult.tasks[k].section =
                SectionTagAt(DocLines, pResult.tasks[k].line + 1)

----------------------------------------------------------------------------
(* C27 *)

\* Line i (1-based) is a non-empty line that is neither a heading nor a
\* checkbox, the active section is the header pseudo-section, and no
\* level-2 heading came before it.
DescriptionLine(lines, i) ==
    /\ ~Fenced(lines, i)
    /\ Len(lines[i]) > 0
    /\ ~IsLevel1Heading(lines[i])
    /\ ~IsLevel2Heading(lines[i])
    /\ ~CheckboxShape(trim(lines[i]))
    /\ HeadingBefore(lines, i) # 0
    /\ IsLevel1Heading(lines[HeadingBefore(lines, i)])
    /\ \A j \in 1..(i - 1) : Fenced(lines, j) \/ ~IsLevel2Heading(lines[j])

\* The lines of the document that are description lines, in order.
DescriptionLines ==
    SelectSeq([ i \in 1..Len(DocLines) |-> [at |-> i, text |-> DocLines[i]] ],
              LAMBDA l : DescriptionLine(DocLines, l.at))

\* C27: the description is, joined by newlines and in file order, every
\* non-empty line that is neither a heading nor a checkbox and comes while
\* the active section is the header pseudo-section; list lines that are no
\* checkbox are among them, and no line after the first level-2 heading
\* is.
C27_DescriptionLines ==
    Parsed =>
        pResult.description =
            join([ k \in 1..Len(DescriptionLines) |-> DescriptionLines[k].text ])

----------------------------------------------------------------------------
(* C29 *)

\* The lines of the file at the path of a project result.
LinesAt(path) ==
    split(IF path.file = "TASKS.md" THEN fsys[path.dir].tasks
          ELSE fsys[path.dir].readme)

\* Line lineIndex (0-based) of the lines is a checkbox line with the
\* description given.
CheckboxAt(lines, lineIndex, description) ==
    /\ lineIndex < Len(lines)
    /\ CheckboxShape(trim(lines[lineIndex + 1]))
    /\ CheckboxDescription(trim(lines[lineIndex + 1]),
                           MatchCheckbox(trim(lines[lineIndex + 1])))
           = description

\* C29: the line of every task of a project result, tasks merged in from
\* README.md included, is the index of a checkbox line with the task's
\* description in the file at the result's path, and no two tasks of a
\* result have the same line; so a status change addressed by the path and
\* the line changes the line of that task.
C29_LinesAddressTasks ==
    HasIds =>
        \A k \in 1..Len(results) :
            /\ \A j \in 1..Len(results[k].tasks) :
                  CheckboxAt(LinesAt(results[k].path),
                             results[k].tasks[j].line,
                             results[k].tasks[j].description)
            /\ \A i, j \in 1..Len(results[k].tasks) :
                  results[k].tasks[i].line = results[k].tasks[j].line => i = j

----------------------------------------------------------------------------
(* C30 *)

\* The last call wrote the TASKS.md it found.
Wrote(call) == pjCall = call /\ pjBefore # Absent /\ ~pjThrew

\* The task has the id, the description and the section of the other.
KeepsId(t, u) ==
    /\ t.id = u.id
    /\ t.description = u.description
    /\ t.section = u.section

\* The first tasks of after are those of before, each with its id.
IdsKept(before, after) ==
    /\ Len(before) <= Len(after)
    /\ \A k \in 1..Len(before) : KeepsId(before[k], after[k])

\* C30: compact ids are stable under the tool's own writes: after a status
\* mutation every task has the id it had and there is no other task; after
\* addTask every task that was there has the id it had, and the task added
\* has a number greater than that of every other task, whatever sections
\* follow ## Tasks.
C30_IdsStable ==
    /\ Wrote("updateTaskStatus") =>
          /\ IdsKept(ProjectTasks(pjBefore, readmeFile),
                     ProjectTasks(tasksFile, readmeFile))
          /\ Len(ProjectTasks(tasksFile, readmeFile))
                 = Len(ProjectTasks(pjBefore, readmeFile))
    /\ Wrote("addTask") =>
          /\ IdsKept(ProjectTasks(pjBefore, readmeFile),
                     ProjectTasks(tasksFile, readmeFile))
          /\ Len(ProjectTasks(tasksFile, readmeFile))
                 = Len(ProjectTasks(pjBefore, readmeFile)) + 1

====
